---- MODULE Spec2Model ----
(***************************************************************************)
(* A model of yacm's transitive dependency resolver                        *)
(* (internal/resolver/resolver.go) and of the collaborators it drives:     *)
(* the primary index lookup, the historical (BackPAN) lookup, the          *)
(* downloader's cache and the metadata extractor.                          *)
(*                                                                         *)
(* Encoding of Go strings.  A version or constraint string is a sequence   *)
(* of one-character strings (<<">", "=", " ", "2">> is ">= 2"), so that    *)
(* trimming, splitting and number parsing are computed as the code         *)
(* computes them.  A string that is handled as a path or URL is the        *)
(* sequence of its "/"-separated segments, and a segment is a sequence of  *)
(* tokens (<<"Foo-2.1", ".tar.gz">> is "Foo-2.1.tar.gz"); joining with "/" *)
(* is concatenation of segment sequences.  Module names are atoms.         *)
(***************************************************************************)
EXTENDS Integers, Sequences, FiniteSets, TLC

\* ------------------------------------------------------------------------
\* Go string helpers on character sequences
\* ------------------------------------------------------------------------

Digits == {"0", "1", "2", "3", "4", "5", "6", "7", "8", "9"}

DigitVal(c) ==
    CASE c = "0" -> 0 [] c = "1" -> 1 [] c = "2" -> 2 [] c = "3" -> 3
      [] c = "4" -> 4 [] c = "5" -> 5 [] c = "6" -> 6 [] c = "7" -> 7
      [] c = "8" -> 8 [] c = "9" -> 9

WhiteSpace == {" ", "\t", "\n", "\r"}

Drop(s, n) == SubSeq(s, n + 1, Len(s))

Take(s, n) == SubSeq(s, 1, n)

HasPrefix(s, p) == Len(s) >= Len(p) /\ Take(s, Len(p)) = p

TrimPrefix(s, p) == IF HasPrefix(s, p) THEN Drop(s, Len(p)) ELSE s

RECURSIVE TrimLeft(_)
TrimLeft(s) ==
    IF s # <<>> /\ Head(s) \in WhiteSpace THEN TrimLeft(Tail(s)) ELSE s

RECURSIVE TrimRight(_)
TrimRight(s) ==
    IF s # <<>> /\ s[Len(s)] \in WhiteSpace
    THEN TrimRight(Take(s, Len(s) - 1)) ELSE s

TrimSpace(s) == TrimRight(TrimLeft(s))

\* strings.Split(s, sep) for a one-character separator: always at least one part
RECURSIVE SplitAcc(_, _, _)
SplitAcc(s, sep, cur) ==
    IF s = <<>> THEN <<cur>>
    ELSE IF Head(s) = sep THEN <<cur>> \o SplitAcc(Tail(s), sep, <<>>)
    ELSE SplitAcc(Tail(s), sep, Append(cur, Head(s)))

Split(s, sep) == SplitAcc(s, sep, <<>>)

RECURSIVE DigitsVal(_, _)
DigitsVal(s, acc) ==
    IF s = <<>> THEN acc ELSE DigitsVal(Tail(s), 10 * acc + DigitVal(Head(s)))

AllDigits(s) == s # <<>> /\ \A i \in 1..Len(s) : s[i] \in Digits

\* strconv.Atoi with the error discarded: an optional sign and decimal digits,
\* 0 on a syntax error (the strings of the model are far below the int range)
Atoi(s) ==
    IF s # <<>> /\ Head(s) \in {"+", "-"}
    THEN IF AllDigits(Tail(s))
         THEN (IF Head(s) = "-" THEN 0 - DigitsVal(Tail(s), 0)
               ELSE DigitsVal(Tail(s), 0))
         ELSE 0
    ELSE IF AllDigits(s) THEN DigitsVal(s, 0) ELSE 0

\* ------------------------------------------------------------------------
\* Version algebra (resolver.go)
\* ------------------------------------------------------------------------

\* the loop of normalizeVersion that cuts the fractional part into chunks
RECURSIVE FracChunks(_)
FracChunks(frac) ==
    IF frac = <<>> THEN <<>>
    ELSE IF Len(frac) > 3
         THEN <<Atoi(Take(frac, 3))>> \o FracChunks(Drop(frac, 3))
         ELSE <<Atoi(frac)>>

\* every version read as dotted, the fractional part never cut into chunks
normalizeDotted(v) ==
    LET v1 == TrimPrefix(v, <<"v">>)
        parts == Split(v1, ".")
    IN  IF v1 = <<>> THEN <<0>> ELSE [i \in 1..Len(parts) |-> Atoi(parts[i])]

normalizeVersion(v) ==
    LET v1 == TrimPrefix(v, <<"v">>)
        parts == Split(v1, ".")
    IN  IF v1 = <<>> THEN <<0>>
        ELSE IF Len(parts) = 1 THEN <<Atoi(parts[1])>>
        ELSE IF Len(parts) = 2 /\ Len(parts[2]) > 3
             THEN <<Atoi(parts[1])>> \o FracChunks(parts[2])
        ELSE [i \in 1..Len(parts) |-> Atoi(parts[i])]

RECURSIVE CompareFrom(_, _, _)
CompareFrom(aParts, bParts, i) ==
    LET maxLen == IF Len(bParts) > Len(aParts) THEN Len(bParts) ELSE Len(aParts)
        aVal == IF i <= Len(aParts) THEN aParts[i] ELSE 0
        bVal == IF i <= Len(bParts) THEN bParts[i] ELSE 0
    IN  IF i > maxLen THEN 0
        ELSE IF aVal < bVal THEN 0 - 1
        ELSE IF aVal > bVal THEN 1
        ELSE CompareFrom(aParts, bParts, i + 1)

compareVersions(a, b) == CompareFrom(normalizeVersion(a), normalizeVersion(b), 1)

satisfiesOne(have, want0) ==
    LET want == TrimSpace(want0)
        op == IF HasPrefix(want, <<">", "=">>) THEN ">="
              ELSE IF HasPrefix(want, <<"<", "=">>) THEN "<="
              ELSE IF HasPrefix(want, <<"!", "=">>) THEN "!="
              ELSE IF HasPrefix(want, <<">">>) THEN ">"
              ELSE IF HasPrefix(want, <<"<">>) THEN "<"
              ELSE IF HasPrefix(want, <<"=", "=">>) THEN "=="
              ELSE "bare"
        wantVer == IF op \in {">=", "<=", "!=", "=="} THEN TrimSpace(Drop(want, 2))
                   ELSE IF op \in {">", "<"} THEN TrimSpace(Drop(want, 1))
                   ELSE want
        cmp == compareVersions(have, wantVer)
    IN  IF want = <<>> \/ want = <<"0">> THEN TRUE
        ELSE CASE op \in {">=", "bare"} -> cmp >= 0
               [] op = ">"  -> cmp > 0
               [] op = "<=" -> cmp <= 0
               [] op = "<"  -> cmp < 0
               [] op = "==" -> cmp = 0
               [] op = "!=" -> cmp # 0

Undef == <<"u", "n", "d", "e", "f">>

\* a constraint taken to hold as soon as one of its clauses holds
satisfiesAny(have0, want) ==
    LET have == IF have0 = <<>> THEN <<"0">> ELSE have0
        constraints == Split(want, ",")
    IN  IF want = <<>> \/ want = <<"0">> THEN TRUE
        ELSE IF have0 = Undef THEN TRUE
        ELSE \E i \in 1..Len(constraints) :
                satisfiesOne(have, TrimSpace(constraints[i]))

satisfies(have0, want) ==
    LET have == IF have0 = <<>> THEN <<"0">> ELSE have0
        constraints == Split(want, ",")
    IN  IF want = <<>> \/ want = <<"0">> THEN TRUE
        ELSE IF have0 = Undef THEN TRUE
        ELSE \A i \in 1..Len(constraints) :
                satisfiesOne(have, TrimSpace(constraints[i]))

\* ------------------------------------------------------------------------
\* Paths and URLs
\* ------------------------------------------------------------------------

SegAuthors == <<"authors">>

SegId == <<"id">>

SegDot == <<".">>

SegDotDot == <<"..">>

SegEmpty == <<>>

\* CPANIndex.mirror: the mirror root, trailing "/" stripped by NewCPANIndex
Mirror == << <<"https:">>, SegEmpty, <<"cpan.metacpan.org">> >>

\* Downloader.cacheDir and BackPANIndex.backpanDir (directories as segment lists)
CacheDir == << <<"cache">> >>

BackpanDir == << <<"backpan-modules">> >>

\* path.Clean as filepath.Join applies it: empty and "." segments vanish,
\* ".." removes the segment before it (a leading ".." of a relative path stays)
RECURSIVE CleanAcc(_, _)
CleanAcc(segs, out) ==
    IF segs = <<>> THEN out
    ELSE LET s == Head(segs) IN
         IF s = SegEmpty \/ s = SegDot THEN CleanAcc(Tail(segs), out)
         ELSE IF s = SegDotDot
              THEN IF out # <<>> /\ out[Len(out)] # SegDotDot
                   THEN CleanAcc(Tail(segs), Take(out, Len(out) - 1))
                   ELSE CleanAcc(Tail(segs), Append(out, s))
         ELSE CleanAcc(Tail(segs), Append(out, s))

PathJoin(dir, p) == CleanAcc(dir \o p, <<>>)

\* Downloader.CachePath
CachePath(pathname) == PathJoin(CacheDir, pathname)

\* BackPANIndex.LocalPath: the last "/"-separated part of the URL under backpanDir
LocalPath(downloadURL) == PathJoin(BackpanDir, <<downloadURL[Len(downloadURL)]>>)

\* strings.Index(url, "/authors/id/"): the segment after which the match ends,
\* 0 when there is no match (the first segment has no "/" before it)
AuthorsIdAt(url) ==
    LET hits == {i \in 2..(Len(url) - 2) : url[i] = SegAuthors /\ url[i + 1] = SegId}
    IN  IF hits = {} THEN 0
        ELSE (CHOOSE i \in hits : \A j \in hits : i <= j) + 1

extractPathname(url) ==
    IF AuthorsIdAt(url) # 0 THEN Drop(url, AuthorsIdAt(url))
    ELSE <<url[Len(url)]>>

\* filepath.Base: trailing slashes dropped, then the last element; "." for the
\* empty path and "/" for a path of slashes only
RECURSIVE BaseSeg(_)
BaseSeg(path) ==
    IF path = <<SegEmpty>> \/ path = <<>> THEN SegDot
    ELSE IF \A i \in 1..Len(path) : path[i] = SegEmpty THEN <<"/">>
    ELSE IF path[Len(path)] = SegEmpty THEN BaseSeg(Take(path, Len(path) - 1))
    ELSE path[Len(path)]

TrimSuffixTok(seg, tok) ==
    IF seg # <<>> /\ seg[Len(seg)] = tok THEN Take(seg, Len(seg) - 1) ELSE seg

distNameFromPath(pathname) ==
    TrimSuffixTok(TrimSuffixTok(BaseSeg(pathname), ".tar.gz"), ".tgz")

\* ------------------------------------------------------------------------
\* The static core set (resolver.go, coreModules)
\* ------------------------------------------------------------------------

coreModules == {
    "perl", "strict", "warnings", "utf8", "base", "parent", "constant",
    "overload", "lib", "vars", "integer", "bytes", "feature", "if", "mro",
    "re", "locale", "open", "subs", "fields", "bignum", "bigint", "bigrat",
    "AnyDBM_File", "AutoLoader", "AutoSplit", "B", "B::Deparse", "Benchmark",
    "Carp", "Carp::Heavy", "Class::Struct", "Config", "Config::Extensions",
    "Cwd", "DB", "DBM_Filter", "Data::Dumper", "Devel::Peek",
    "Devel::SelfStubber", "Digest", "Digest::MD5", "DirHandle", "Dumpvalue",
    "DynaLoader", "Encode", "Encode::Alias", "Encode::Config",
    "Encode::Encoding", "Encode::Guess", "Encode::MIME::Header", "English",
    "Env", "Errno", "Exporter", "Exporter::Heavy", "ExtUtils::Constant",
    "ExtUtils::Embed", "ExtUtils::Install", "ExtUtils::Installed",
    "ExtUtils::Liblist", "ExtUtils::MM", "ExtUtils::MM_Any",
    "ExtUtils::MM_Unix", "ExtUtils::MY", "ExtUtils::Manifest",
    "ExtUtils::Miniperl", "ExtUtils::Mkbootstrap", "ExtUtils::Mksymlists",
    "ExtUtils::Packlist", "ExtUtils::testlib", "Fcntl", "File::Basename",
    "File::Compare", "File::Copy", "File::DosGlob", "File::Find",
    "File::Glob", "File::Path", "File::Spec", "File::Spec::Functions",
    "File::Spec::Unix", "File::Stat", "File::stat", "File::Temp",
    "FileCache", "FileHandle", "Filter::Simple", "Filter::Util::Call",
    "FindBin", "GDBM_File", "Getopt::Long", "Getopt::Std", "Hash::Util",
    "Hash::Util::FieldHash", "I18N::Collate", "I18N::LangTags",
    "I18N::Langinfo", "IO", "IO::Dir", "IO::File", "IO::Handle", "IO::Pipe",
    "IO::Poll", "IO::Seekable", "IO::Select", "IO::Socket",
    "IO::Socket::INET", "IO::Socket::UNIX", "IPC::Cmd", "IPC::Msg",
    "IPC::Open2", "IPC::Open3", "IPC::Semaphore", "IPC::SharedMem",
    "IPC::SysV", "List::Util", "List::Util::XS", "Locale::Maketext",
    "MIME::Base64", "MIME::QuotedPrint", "Math::BigFloat", "Math::BigInt",
    "Math::BigRat", "Math::Complex", "Math::Trig", "Memoize", "NDBM_File",
    "Net::Cmd", "Net::Config", "Net::Domain", "Net::FTP", "Net::NNTP",
    "Net::Netrc", "Net::POP3", "Net::Ping", "Net::SMTP", "Net::Time",
    "Net::hostent", "Net::netent", "Net::protoent", "Net::servent", "O",
    "Opcode", "ODBM_File", "OS2::Process", "PerlIO", "PerlIO::encoding",
    "PerlIO::scalar", "PerlIO::via", "PerlIO::via::QuotedPrint",
    "Pod::Checker", "Pod::Find", "Pod::Functions", "Pod::Html",
    "Pod::InputObjects", "Pod::Man", "Pod::ParseLink", "Pod::ParseUtils",
    "Pod::Parser", "Pod::Perldoc", "Pod::PlainText", "Pod::Select",
    "Pod::Simple", "Pod::Text", "Pod::Usage", "POSIX", "SDBM_File", "Safe",
    "Scalar::Util", "Search::Dict", "SelectSaver", "SelfLoader", "Socket",
    "Storable", "Sub::Util", "Symbol", "Sys::Hostname", "Sys::Syslog",
    "Term::ANSIColor", "Term::Cap", "Term::Complete", "Term::ReadLine",
    "Test", "Test::Builder", "Test::Builder::Module",
    "Test::Builder::Tester", "Test::Harness", "Test::More", "Test::Simple",
    "Text::Abbrev", "Text::Balanced", "Text::ParseWords", "Text::Tabs",
    "Text::Wrap", "Thread", "Thread::Queue", "Thread::Semaphore",
    "Tie::Array", "Tie::File", "Tie::Handle", "Tie::Hash", "Tie::Memoize",
    "Tie::RefHash", "Tie::Scalar", "Tie::StdHandle", "Tie::SubstrHash",
    "Time::HiRes", "Time::Local", "Time::Piece", "Time::Seconds",
    "Time::gmtime", "Time::localtime", "Time::tm", "UNIVERSAL",
    "Unicode::Collate", "Unicode::Normalize", "Unicode::UCD", "User::grent",
    "User::pwent", "XSLoader", "version", "threads", "threads::shared",
    "encoding", "encoding::warnings"
}

isCore(module) == module \in coreModules

\* ------------------------------------------------------------------------
\* The world the resolver runs in: modules, index tables, historical
\* answers and the tarballs the servers hand out
\* ------------------------------------------------------------------------

\* the longest top-level requirement list handed to Resolve
MaxReqs == 2

\* the deepest call stack the model follows (the resolver itself sets no limit)
MaxDepth == 5

NonCore == {"JSON", "Moo", "DBI"}

CoreSample == {"strict"}

Mods == NonCore \cup CoreSample

\* the next non-core module, cyclically (used to shape requirement graphs)
Nxt(m) == CASE m = "JSON" -> "Moo" [] m = "Moo" -> "DBI" [] m = "DBI" -> "JSON"

Prv(m) == CASE m = "JSON" -> "DBI" [] m = "Moo" -> "JSON" [] m = "DBI" -> "Moo"

V0 == <<"0">>

V1 == <<"1">>

V2 == <<"2">>

Empty == <<>>

GE2 == <<">", "=", " ", "2">>

LT2 == <<"<", " ", "2">>

GE1LT2 == <<">", "=", " ", "1", ",", " ", "<", " ", "2">>

EmptyMap == [x \in {} |-> Empty]

\* author-relative pathname of the tarball of module m with version tag t
PathOf(m, t) == << <<"X">>, <<"XY">>, <<m, t, ".tar.gz">> >>

\* primary index tables (CPANIndex.modules after Load): module -> entry
IndexTables ==
    { [m \in {"JSON", "Moo"} |->
          [Module |-> m, Version |-> (IF m = "JSON" THEN V1 ELSE Undef),
           Pathname |-> PathOf(m, "-1")]],
      [m \in {"Moo", "DBI"} |->
          [Module |-> m, Version |-> (IF m = "Moo" THEN V2 ELSE V1),
           Pathname |-> PathOf(m, "-1")]] }

\* top-level requirements a manifest may hold
TopReqs ==
    { [Module |-> "JSON", Version |-> V0],
      [Module |-> "JSON", Version |-> GE2],
      [Module |-> "Moo", Version |-> GE1LT2],
      [Module |-> "DBI", Version |-> Empty],
      [Module |-> "strict", Version |-> V0] }

RECURSIVE SeqsUpTo(_, _)
SeqsUpTo(S, n) ==
    IF n = 0 THEN {<<>>}
    ELSE LET shorter == SeqsUpTo(S, n - 1)
         IN  shorter \cup {Append(q, x) : q \in {r \in shorter : Len(r) = n - 1}, x \in S}

\* URLs the historical API may answer with for module m
BackpanURLs(m) ==
    { << <<"https:">>, SegEmpty, <<"backpan.perl.org">>, SegAuthors, SegId,
         <<"X">>, <<"XY">>, <<m, "-2", ".tar.gz">> >>,
      << <<"https:">>, SegEmpty, <<"files.example">>, <<"dl">>,
         <<m, "-2", ".tar.gz">> >> }

NoMeta == [ok |-> FALSE, Version |-> Empty, Provides |-> EmptyMap,
           Requirements |-> EmptyMap]

Meta(version, provides, requirements) ==
    [ok |-> TRUE, Version |-> version, Provides |-> provides,
     Requirements |-> requirements]

\* tarballs a server may hand out for a URL whose file is <m><tag>.tar.gz:
\* what ExtractWithConfigure finds in them (MetaFile fields), or nothing usable
TarballsFor(m, tag) ==
    IF tag = "-1"
    THEN { Meta(V1, (m :> V1), (Nxt(m) :> V0) @@ ("strict" :> V0)),
           Meta(V1, (m :> V1) @@ (Nxt(m) :> V1) @@ ("strict" :> V1),
                (Nxt(m) :> GE2)),
           Meta(V1, (m :> V1), (m :> GE2) @@ (Prv(m) :> LT2)),
           NoMeta }
    ELSE { Meta(V2, (m :> V2), (Prv(m) :> GE2)),
           Meta(V1, EmptyMap, EmptyMap) }

Served(url) ==
    LET file == url[Len(url)] IN TarballsFor(file[1], file[2])

\* ------------------------------------------------------------------------
\* Resolver state
\* ------------------------------------------------------------------------

VARIABLES
    modules,    \* CPANIndex.modules: module -> index entry
    reqs,       \* the argument of Resolve
    phase,      \* "idle" (constructed), "running", "done", "failed"
    next,       \* position of Resolve's loop in reqs
    resolved,   \* Resolver.resolved: module -> *dist.Dist (an index into dists)
    resolving,  \* Resolver.resolving: the modules marked true
    dists,      \* the dist.Dist values allocated so far, in allocation order
    stack,      \* the resolveOne frames on the call stack, innermost last
    err,        \* the error being returned up the stack, "none" if none
    result,     \* the slice Resolve returned (nil on error)
    disk,       \* destination path -> tarball stored there
    trace       \* history: the index, network and extractor calls made so far

vars == <<modules, reqs, phase, next, resolved, resolving, dists, stack, err,
          result, disk, trace>>

\* ------------------------------------------------------------------------
\* State of the downloader, of the primary index's Load and of the snapshot
\* writer, each exercised by a specification of its own
\* ------------------------------------------------------------------------

VARIABLES
    workers,    \* Downloader.workers
    dlpc,       \* Download: "idle", "running", "returned"
    jobs,       \* the argument of Download
    pushed,     \* how many jobs Download has put on jobChan
    jobChan,    \* jobChan: the queued jobs (positions in jobs), oldest first
    chanClosed, \* close(jobChan) has run
    resultChan, \* resultChan: the results published and not yet collected
    results,    \* the slice Download builds and returns
    wk,         \* worker goroutine -> its position in downloadOne and its job
    files,      \* file system: path -> content written so far
    requests,   \* history: job -> the answers to the HTTP requests made for it
    taken,      \* history: job -> how many times a worker received it
    calls       \* history: how many Download calls were made

dlVars == <<workers, dlpc, jobs, pushed, jobChan, chanClosed, resultChan,
            results, wk, files, requests, taken, calls>>

VARIABLES
    ldpc,       \* Load: "idle", then its position, then "loaded" or "failed"
    cache,      \* the cache file: whether it exists, its content, its age in hours
    ldBody,     \* the response body being decompressed, and how far
    ldModules,  \* CPANIndex.modules as parseCache filled it
    ldRequests, \* history: the URLs Load requested
    ldStart     \* history: the cache file as Load found it, and the calls made

ldVars == <<ldpc, cache, ldBody, ldModules, ldRequests, ldStart>>

VARIABLES
    snpc,       \* snapshot writer and reader: "idle", then its position
    snDists,    \* the records Resolve returned
    snUnique,   \* runSnapshot's uniqueDists, the list passed to Emit
    snText,     \* a snapshot text given to the parser
    snParsed,   \* what Parser.Parse returned
    snOut       \* what Emitter.Emit wrote

snVars == <<snpc, snDists, snUnique, snText, snParsed, snOut>>

VARIABLES
    vspc,       \* a call of satisfies or compareVersions: "idle", "input", then done
    vsA,        \* the first argument (have, a)
    vsB,        \* the second argument (want, b)
    vsClauses,  \* history: the clauses the constraint want was written from
    vsOut       \* what the call returned

vsVars == <<vspc, vsA, vsB, vsClauses, vsOut>>

\* the version functions before they are called
VsUnused ==
    vspc = "idle" /\ vsA = <<>> /\ vsB = <<>> /\ vsClauses = <<>> /\ vsOut = <<>>

VARIABLES
    expc,       \* extractMeta: "idle", "open", "scanned", "static", "done"
    exArgs,     \* the tarball (its entries in order) and withConfigure
    exFound,    \* what the loop over the entries collected
    exRun,      \* history: the runConfigure calls and how they went
    exOut       \* what extractMeta returned

exVars == <<expc, exArgs, exFound, exRun, exOut>>

\* the extractor before it is called
ExUnused ==
    expc = "idle" /\ exArgs = <<>> /\ exFound = <<>> /\ exRun = <<>> /\ exOut = <<>>

VARIABLES
    bppc,       \* BackPANIndex.Lookup and its caller: "idle", "call", "answered", "done"
    bpArgs,     \* module, version and the response the server will give
    bpReq,      \* history: the URL of the request Lookup made
    bpOut,      \* what Lookup returned
    bpUp        \* what resolveOne did with it

bpVars == <<bppc, bpArgs, bpReq, bpOut, bpUp>>

\* the historical index before it is called
BpUnused ==
    bppc = "idle" /\ bpArgs = <<>> /\ bpReq = <<>> /\ bpOut = <<>> /\ bpUp = <<>>

VARIABLES
    prior       \* history: what an earlier run of the program met and returned

rnVars == <<prior>>

\* no earlier run
RnUnused == prior = <<>>

VARIABLES
    ixpc,       \* an index given a file to parse: "idle", "new", "parsed", "asked"
    ixLines,    \* the lines of the cache file
    ixQuery,    \* the module Lookup is called with
    ixModules,  \* CPANIndex.modules
    ixOut       \* what Lookup returned

ixVars == <<ixpc, ixLines, ixQuery, ixModules, ixOut>>

\* no index file given to parse
IxUnused ==
    /\ ixpc = "idle" /\ ixLines = <<>> /\ ixQuery = "" /\ ixModules = <<>>
    /\ ixOut = <<>>

\* the components beside the resolver, the downloader, the index and the
\* snapshot
fnVars == <<vsVars, exVars, bpVars, rnVars, ixVars>>

FnUnused == VsUnused /\ ExUnused /\ BpUnused /\ RnUnused /\ IxUnused

\* the downloader before any Download call, with no worker configured
DlUnused ==
    /\ workers = 0 /\ dlpc = "idle" /\ jobs = <<>> /\ pushed = 0
    /\ jobChan = <<>> /\ chanClosed = FALSE /\ resultChan = <<>>
    /\ results = <<>> /\ wk = <<>> /\ files = <<>> /\ requests = <<>>
    /\ taken = <<>> /\ calls = 0

\* the primary index before Load
LdUnused ==
    /\ ldpc = "idle" /\ cache = <<>> /\ ldBody = <<>> /\ ldModules = <<>>
    /\ ldRequests = <<>> /\ ldStart = <<>>

\* the snapshot writer before it is handed records
SnUnused ==
    /\ snpc = "idle" /\ snDists = <<>> /\ snUnique = <<>> /\ snText = <<>>
    /\ snParsed = <<>> /\ snOut = <<>>

NoPtrs == [x \in {} |-> 0]

NoFiles == [x \in {} |-> NoMeta]

newFrame(module, version) ==
    [module |-> module, version |-> version, pc |-> "enter", url |-> <<>>,
     pathname |-> <<>>, source |-> "", destPath |-> <<>>, d |-> 0, todo |-> {}]

Top == stack[Len(stack)]

\* the frame whose loop made the call of the top frame (resolveOne line 172)
Caller == stack[Len(stack) - 1]

Popped == Take(stack, Len(stack) - 1)

WithTop(f) == [stack EXCEPT ![Len(stack)] = f]

\* a history entry: the call made (op), by the frame of which module and
\* constraint, for which URL and destination, whether it succeeded, and the
\* record concerned (for a skip: the record whose requirement was skipped)
Event(op, f, ok, id) ==
    [op |-> op, module |-> f.module, version |-> f.version, url |-> f.url,
     dest |-> f.destPath, ok |-> ok, id |-> id]

\* the frame on top of the stack is executing (no error is travelling up)
Running(pc) ==
    /\ phase = "running"
    /\ err = "none"
    /\ stack # <<>>
    /\ Top.pc = pc

\* every version and constraint string that occurs in this world
VersionStrings == {Empty, V0, V1, V2, Undef, GE2, LT2, GE1LT2}

\* satisfies, tabulated once over the strings of this world (the resolver's
\* guards call it in every state)
satisfiesTable == [have \in VersionStrings, want \in VersionStrings |->
                      satisfies(have, want)]

\* d.Provides[module] of a Go map: "" for a missing key
ProvidesOf(d, module) ==
    IF module \in DOMAIN d.Provides THEN d.Provides[module] ELSE Empty

\* a resolver that never reuses a bound record
NeverResolved(module, version) == FALSE

\* resolveOne lines 76-80: already resolved with a compatible version
AlreadyResolved(module, version) ==
    /\ module \in DOMAIN resolved
    /\ satisfiesTable[ProvidesOf(dists[resolved[module]], module), version]

\* a resolver without the circular-dependency test
NoCycleCheck(module) == FALSE

\* resolveOne line 83
InCycle(module) == module \in resolving

\* a resolver that does not mark the module it starts to resolve
NotMarked(marks, module) == marks

\* a resolver whose frames leave their mark behind
NotReleased(marks, module) == marks

\* resolveOne line 88: the deferred delete(r.resolving, module)
Released(marks, module) == marks \ {module}

\* resolveOne line 87: r.resolving[module] = true
Marked(marks, module) == marks \cup {module}

\* CPANIndex.Lookup
Found(module) == module \in DOMAIN modules

\* a resolver that takes the primary entry whatever its version
UseFound(module, version) == Found(module)

\* resolveOne line 96: the primary entry is used
UsePrimary(module, version) ==
    Found(module) /\ satisfiesTable[modules[module].Version, version]

\* BackPANIndex.Lookup as the resolver sees it: a download URL, or an error
\* (HTTP 404, another status, a transport or decoding error)
BackpanAnswers(module, version) ==
    {[ok |-> FALSE, DownloadURL |-> <<>>]}
        \cup {[ok |-> TRUE, DownloadURL |-> u] : u \in BackpanURLs(module)}

\* a minimal record that forgets the requested constraint
MinimalMetaUnversioned(module, version) ==
    [Version |-> Empty, Provides |-> (module :> Empty), Requirements |-> EmptyMap]

\* resolveOne lines 136-140: the metadata substituted on an extraction error
MinimalMeta(module, version) ==
    [Version |-> Empty, Provides |-> (module :> version), Requirements |-> EmptyMap]

\* Extractor.ExtractWithConfigure on the stored tarball, then lines 134-141
MetaOf(tarball, module, version) ==
    IF tarball.ok
    THEN [Version |-> tarball.Version, Provides |-> tarball.Provides,
          Requirements |-> tarball.Requirements]
    ELSE MinimalMeta(module, version)

\* a Dist whose provides are the metadata's, the requested module not added
newDistAsListed(f, meta) ==
    [Name |-> distNameFromPath(f.pathname),
     Pathname |-> f.pathname,
     Provides |-> meta.Provides,
     Requirements |-> meta.Requirements,
     Source |-> f.source]

\* resolveOne lines 144-159: the Dist built from the metadata
newDist(f, meta) ==
    [Name |-> distNameFromPath(f.pathname),
     Pathname |-> f.pathname,
     Provides |-> IF f.module \in DOMAIN meta.Provides THEN meta.Provides
                  ELSE meta.Provides @@ (f.module :> meta.Version),
     Requirements |-> meta.Requirements,
     Source |-> f.source]

\* a binding step without the exists test of line 165
BindOverwrite(res, module, provided, id) ==
    [m \in DOMAIN res \cup {module} \cup provided |->
        IF m = module \/ m \in provided THEN id ELSE res[m]]

\* a resolver that binds nothing before it recurses
BindNothing(res, module, provided, id) == res

\* a binding step that leaves the provided modules out
BindPrimaryOnly(res, module, provided, id) ==
    [m \in DOMAIN res \cup {module} |-> IF m = module THEN id ELSE res[m]]

\* resolveOne lines 162-168: bind the module, then every unbound provided module
Bind(res, module, provided, id) ==
    [m \in DOMAIN res \cup {module} \cup provided |->
        IF m = module THEN id
        ELSE IF m \in DOMAIN res THEN res[m]
        ELSE id]

\* a loop that stops after its first requirement
NoneRemaining(todo, m) == {}

\* a loop that never leaves its first requirement
AllRemaining(todo, m) == todo

\* the requirements a frame's loop still has to visit after visiting m
Remaining(todo, m) == todo \ {m}

\* ------------------------------------------------------------------------
\* Resolve and resolveOne, one action per step
\* ------------------------------------------------------------------------

Init ==
    /\ modules \in IndexTables
    /\ reqs = <<>>
    /\ phase = "idle"
    /\ next = 1
    /\ resolved = NoPtrs
    /\ resolving = {}
    /\ dists = <<>>
    /\ stack = <<>>
    /\ err = "none"
    /\ result = <<>>
    /\ disk = NoFiles
    /\ trace = <<>>
    /\ DlUnused /\ LdUnused /\ SnUnused /\ FnUnused

\* Resolve is called with a requirement list
Resolve ==
    /\ UNCHANGED <<dlVars, ldVars, snVars, fnVars>>
    /\ phase = "idle"
    /\ \E rs \in SeqsUpTo(TopReqs, MaxReqs) : reqs' = rs
    /\ phase' = "running"
    /\ UNCHANGED <<modules, next, resolved, resolving, dists, stack, err, result,
                   disk, trace>>

\* a loop that takes the requirements from the last to the first
RequirementFromEnd(rs, i) == rs[Len(rs) + 1 - i]

\* Resolve line 56: the requirement the range loop visits in its i-th round
Requirement(rs, i) == rs[i]

\* Resolve line 57: the loop calls resolveOne for the next requirement
TopCall ==
    /\ UNCHANGED <<dlVars, ldVars, snVars, fnVars>>
    /\ phase = "running" /\ err = "none" /\ stack = <<>>
    /\ next <= Len(reqs)
    /\ stack' = <<newFrame(Requirement(reqs, next).Module,
                           Requirement(reqs, next).Version)>>
    /\ next' = next + 1
    /\ UNCHANGED <<modules, reqs, phase, resolved, resolving, dists, err, result,
                   disk, trace>>

\* resolveOne lines 71-73
EnterCore ==
    /\ UNCHANGED <<dlVars, ldVars, snVars, fnVars>>
    /\ Running("enter")
    /\ isCore(Top.module)
    /\ stack' = Popped
    /\ UNCHANGED <<modules, reqs, phase, next, resolved, resolving, dists, err,
                   result, disk, trace>>

\* resolveOne lines 76-80
EnterResolved ==
    /\ UNCHANGED <<dlVars, ldVars, snVars, fnVars>>
    /\ Running("enter")
    /\ ~isCore(Top.module)
    /\ AlreadyResolved(Top.module, Top.version)
    /\ stack' = Popped
    /\ UNCHANGED <<modules, reqs, phase, next, resolved, resolving, dists, err,
                   result, disk, trace>>

\* resolveOne lines 83-86: the circular dependency is skipped
EnterCycle ==
    /\ UNCHANGED <<dlVars, ldVars, snVars, fnVars>>
    /\ Running("enter")
    /\ ~isCore(Top.module)
    /\ ~AlreadyResolved(Top.module, Top.version)
    /\ InCycle(Top.module)
    /\ stack' = Popped
    /\ trace' = Append(trace, Event("skip", Top, TRUE, Caller.d))
    /\ UNCHANGED <<modules, reqs, phase, next, resolved, resolving, dists, err,
                   result, disk>>

\* resolveOne lines 87-88
EnterMark ==
    /\ UNCHANGED <<dlVars, ldVars, snVars, fnVars>>
    /\ Running("enter")
    /\ ~isCore(Top.module)
    /\ ~AlreadyResolved(Top.module, Top.version)
    /\ ~InCycle(Top.module)
    /\ resolving' = Marked(resolving, Top.module)
    /\ stack' = WithTop([Top EXCEPT !.pc = "select"])
    /\ UNCHANGED <<modules, reqs, phase, next, resolved, dists, err, result, disk,
                   trace>>

\* resolveOne lines 93-100 and 116-117: the primary index entry is taken
SelectPrimary ==
    /\ UNCHANGED <<dlVars, ldVars, snVars, fnVars>>
    /\ Running("select")
    /\ UsePrimary(Top.module, Top.version)
    /\ LET pathname == modules[Top.module].Pathname
           f == [Top EXCEPT !.pc = "download",
                            !.pathname = pathname,
                            !.url = Mirror \o <<SegAuthors, SegId>> \o pathname,
                            !.source = "cpan",
                            !.destPath = CachePath(pathname)]
       IN  /\ stack' = WithTop(f)
           /\ trace' = Append(trace, Event("lookup", Top, TRUE, 0))
    /\ UNCHANGED <<modules, reqs, phase, next, resolved, resolving, dists, err,
                   result, disk>>

\* resolveOne lines 101-112 and 118-120: the historical index answers
SelectBackpan ==
    /\ UNCHANGED <<dlVars, ldVars, snVars, fnVars>>
    /\ Running("select")
    /\ ~UsePrimary(Top.module, Top.version)
    /\ \E ans \in BackpanAnswers(Top.module, Top.version) :
          /\ ans.ok
          /\ LET f == [Top EXCEPT !.pc = "download",
                                  !.url = ans.DownloadURL,
                                  !.pathname = extractPathname(ans.DownloadURL),
                                  !.source = "backpan",
                                  !.destPath = LocalPath(ans.DownloadURL)]
             IN  /\ stack' = WithTop(f)
                 /\ trace' = trace \o <<Event("lookup", Top, TRUE, 0),
                                          Event("backpan", f, TRUE, 0)>>
    /\ UNCHANGED <<modules, reqs, phase, next, resolved, resolving, dists, err,
                   result, disk>>

\* resolveOne lines 104-107: the historical lookup fails; the deferred delete runs
SelectBackpanFail ==
    /\ UNCHANGED <<dlVars, ldVars, snVars, fnVars>>
    /\ Running("select")
    /\ ~UsePrimary(Top.module, Top.version)
    /\ \E ans \in BackpanAnswers(Top.module, Top.version) : ~ans.ok
    /\ err' = "resolving"
    /\ resolving' = Released(resolving, Top.module)
    /\ stack' = Popped
    /\ trace' = trace \o <<Event("lookup", Top, TRUE, 0),
                             Event("backpan", Top, FALSE, 0)>>
    /\ UNCHANGED <<modules, reqs, phase, next, resolved, dists, result, disk>>

\* resolveOne lines 122-130 with Downloader.downloadOne lines 343-345:
\* the destination exists, no request is made
DownloadCached ==
    /\ UNCHANGED <<dlVars, ldVars, snVars, fnVars>>
    /\ Running("download")
    /\ Top.destPath \in DOMAIN disk
    /\ stack' = WithTop([Top EXCEPT !.pc = "extract"])
    /\ trace' = Append(trace, Event("cached", Top, TRUE, 0))
    /\ UNCHANGED <<modules, reqs, phase, next, resolved, resolving, dists, err,
                   result, disk>>

\* downloadOne lines 347-381: the tarball is fetched and renamed into place
DownloadFetch ==
    /\ UNCHANGED <<dlVars, ldVars, snVars, fnVars>>
    /\ Running("download")
    /\ Top.destPath \notin DOMAIN disk
    /\ \E tarball \in Served(Top.url) :
          disk' = disk @@ (Top.destPath :> tarball)
    /\ stack' = WithTop([Top EXCEPT !.pc = "extract"])
    /\ trace' = Append(trace, Event("download", Top, TRUE, 0))
    /\ UNCHANGED <<modules, reqs, phase, next, resolved, resolving, dists, err,
                   result>>

\* resolveOne lines 128-130: the download failed; the deferred delete runs
DownloadFail ==
    /\ UNCHANGED <<dlVars, ldVars, snVars, fnVars>>
    /\ Running("download")
    /\ Top.destPath \notin DOMAIN disk
    /\ err' = "downloading"
    /\ resolving' = Released(resolving, Top.module)
    /\ stack' = Popped
    /\ trace' = Append(trace, Event("download", Top, FALSE, 0))
    /\ UNCHANGED <<modules, reqs, phase, next, resolved, dists, result, disk>>

\* resolveOne lines 133-168: extract the metadata (or substitute the minimal
\* record), build the Dist and bind it
ExtractInsert ==
    /\ UNCHANGED <<dlVars, ldVars, snVars, fnVars>>
    /\ Running("extract")
    /\ LET meta == MetaOf(disk[Top.destPath], Top.module, Top.version)
           d == newDist(Top, meta)
           id == Len(dists) + 1
           f == [Top EXCEPT !.pc = "deps", !.d = id,
                            !.todo = DOMAIN d.Requirements]
       IN  /\ dists' = Append(dists, d)
           /\ resolved' = Bind(resolved, Top.module, DOMAIN d.Provides, id)
           /\ stack' = WithTop(f)
           /\ trace' = trace \o
                 <<Event("extract", Top, disk[Top.destPath].ok, id),
                   Event("insert", Top, TRUE, id)>>
    /\ UNCHANGED <<modules, reqs, phase, next, resolving, err, result, disk>>

\* resolveOne lines 171-172: the loop calls resolveOne for one more requirement
\* (a Go map is ranged over in an unspecified order)
DepCall ==
    /\ UNCHANGED <<dlVars, ldVars, snVars, fnVars>>
    /\ Running("deps")
    /\ Len(stack) < MaxDepth
    /\ \E m \in Top.todo :
          stack' = Append(WithTop([Top EXCEPT !.todo = Remaining(Top.todo, m)]),
                          newFrame(m, dists[Top.d].Requirements[m]))
    /\ UNCHANGED <<modules, reqs, phase, next, resolved, resolving, dists, err,
                   result, disk, trace>>

\* resolveOne line 177: every requirement is done; the deferred delete runs
Return ==
    /\ UNCHANGED <<dlVars, ldVars, snVars, fnVars>>
    /\ Running("deps")
    /\ Top.todo = {}
    /\ resolving' = Released(resolving, Top.module)
    /\ stack' = Popped
    /\ UNCHANGED <<modules, reqs, phase, next, resolved, dists, err, result, disk,
                   trace>>

\* resolveOne lines 172-174: a nested call returned an error, which is returned
\* at once; the deferred delete runs
Unwind ==
    /\ UNCHANGED <<dlVars, ldVars, snVars, fnVars>>
    /\ phase = "running" /\ err # "none" /\ stack # <<>>
    /\ resolving' = Released(resolving, Top.module)
    /\ stack' = Popped
    /\ UNCHANGED <<modules, reqs, phase, next, resolved, dists, err, result, disk,
                   trace>>

\* Resolve lines 57-59: return nil, err
ResolveFail ==
    /\ UNCHANGED <<dlVars, ldVars, snVars, fnVars>>
    /\ phase = "running" /\ err # "none" /\ stack = <<>>
    /\ phase' = "failed"
    /\ result' = <<>>
    /\ UNCHANGED <<modules, reqs, next, resolved, resolving, dists, stack, err,
                   disk, trace>>

\* the orders in which a map with these keys may be ranged over
RECURSIVE Orders(_)
Orders(keys) ==
    IF keys = {} THEN {<<>>}
    ELSE UNION {{<<k>> \o o : o \in Orders(keys \ {k})} : k \in keys}

\* Resolve lines 62-66: one slice element per key of resolved
ResolveDone ==
    /\ UNCHANGED <<dlVars, ldVars, snVars, fnVars>>
    /\ phase = "running" /\ err = "none" /\ stack = <<>>
    /\ next > Len(reqs)
    /\ \E o \in Orders(DOMAIN resolved) :
          result' = [i \in 1..Len(o) |-> resolved[o[i]]]
    /\ phase' = "done"
    /\ UNCHANGED <<modules, reqs, next, resolved, resolving, dists, stack, err,
                   disk, trace>>

Next ==
    \/ Resolve
    \/ TopCall
    \/ EnterCore
    \/ EnterResolved
    \/ EnterCycle
    \/ EnterMark
    \/ SelectPrimary
    \/ SelectBackpan
    \/ SelectBackpanFail
    \/ DownloadCached
    \/ DownloadFetch
    \/ DownloadFail
    \/ ExtractInsert
    \/ DepCall
    \/ Return
    \/ Unwind
    \/ ResolveFail
    \/ ResolveDone

Spec == Init /\ [][Next]_vars

\* every step of Resolve is eventually taken: the resolver is one thread that
\* runs until it returns
FairSpec == Spec /\ WF_vars(Next)

\* ------------------------------------------------------------------------
\* Reading the history
\* ------------------------------------------------------------------------

Events(op) == {k \in DOMAIN trace : trace[k].op = op}

EventsOf(op, module) == {k \in Events(op) : trace[k].module = module}

\* the insertion of record id
InsertOf(id) == CHOOSE k \in Events("insert") : trace[k].id = id

\* the module and the constraint whose resolution created record id
PrimaryOf(id) == trace[InsertOf(id)].module

RequestedOf(id) == trace[InsertOf(id)].version

Finished == phase \in {"done", "failed"}

\* ------------------------------------------------------------------------
\* C1: termination
\* ------------------------------------------------------------------------

\* C1: every call of Resolve eventually returns, with records or with an
\* error, whatever the index, the historical answers and the metadata are
\* (cycles of any length, bound versions that fail a later constraint)
C1_ResolveTerminates == (phase = "running") ~> Finished

\* a run that met a cycle and re-resolved a bound module has returned
C1_Witness ==
    /\ phase = "done"
    /\ Events("skip") # {}
    /\ \E m \in NonCore : Cardinality(EventsOf("insert", m)) >= 2

\* ------------------------------------------------------------------------
\* C2: cycle break
\* ------------------------------------------------------------------------

\* a record made for a requires b, and a record made for b requires a
CycleSeen(a, b) ==
    \E i, j \in DOMAIN dists :
        /\ PrimaryOf(i) = a /\ b \in DOMAIN dists[i].Requirements
        /\ PrimaryOf(j) = b /\ a \in DOMAIN dists[j].Requirements

Range(q) == {q[i] : i \in DOMAIN q}

\* C2: when Resolve is called with the single requirement a, and the
\* distribution of a requires b while the distribution of b requires a, the
\* cycle target a is looked up, queried, downloaded and recorded once only,
\* the cycle is no error (a failure needs a failed lookup or download), and
\* the returned records hold the record made for a and the one made for b
C2_CycleBreak ==
    \A a, b \in NonCore :
        (a # b /\ Len(reqs) = 1 /\ reqs[1].Module = a /\ CycleSeen(a, b)) =>
            /\ Cardinality(EventsOf("lookup", a)) = 1
            /\ Cardinality(EventsOf("backpan", a)) <= 1
            /\ Cardinality(EventsOf("download", a) \cup EventsOf("cached", a)) = 1
            /\ Cardinality(EventsOf("insert", a)) = 1
            /\ (phase = "failed" => \E k \in DOMAIN trace : ~trace[k].ok)
            /\ (phase = "done" =>
                   /\ a \in DOMAIN resolved /\ PrimaryOf(resolved[a]) = a
                   /\ b \in DOMAIN resolved /\ PrimaryOf(resolved[b]) = b
                   /\ {resolved[a], resolved[b]} \subseteq Range(result))

\* a two-module cycle was resolved and its back edge was skipped
C2_Witness ==
    /\ phase = "done"
    /\ \E a, b \in NonCore :
          /\ a # b /\ Len(reqs) = 1 /\ reqs[1].Module = a /\ CycleSeen(a, b)
          /\ EventsOf("skip", a) # {}

\* ------------------------------------------------------------------------
\* C3: core elision
\* ------------------------------------------------------------------------

\* C3: no module of the core set is ever a key of resolved, whatever the
\* resolved distributions list in their provides
C3_CoreElision == \A m \in DOMAIN resolved : ~isCore(m)

\* ------------------------------------------------------------------------
\* C4: first writer wins
\* ------------------------------------------------------------------------

BoundVersion(m) == ProvidesOf(dists[resolved[m]], m)

SkippedFor(id, m) ==
    \E k \in EventsOf("skip", m) : trace[k].id = id

\* C5: after a successful resolve every non-core requirement (m, c) of every
\* returned record is bound to a record whose version of m satisfies c, or
\* was skipped as a cycle while that record's requirements were resolved
C5_RequirementClosure ==
    phase = "done" =>
        \A id \in Range(result) :
            \A m \in DOMAIN dists[id].Requirements :
                ~isCore(m) =>
                    \/ /\ m \in DOMAIN resolved
                       /\ satisfies(BoundVersion(m), dists[id].Requirements[m])
                    \/ SkippedFor(id, m)

\* ------------------------------------------------------------------------
\* C6: transitive closure is resolved
\* ------------------------------------------------------------------------

\* the non-core modules that the bound records of the modules in S require
RequiredBy(S) ==
    {m \in Mods : /\ ~isCore(m)
                  /\ \E x \in S : /\ x \in DOMAIN resolved
                                  /\ m \in DOMAIN dists[resolved[x]].Requirements}

RECURSIVE ReachFrom(_)
ReachFrom(S) ==
    IF RequiredBy(S) \subseteq S THEN S ELSE ReachFrom(S \cup RequiredBy(S))

Reachable == ReachFrom({reqs[i].Module : i \in DOMAIN reqs} \ coreModules)

\* C6: after a successful resolve every non-core module reachable from the
\* input through the requirements of the bound records is a key of resolved,
\* or was skipped as a cycle
C6_ReachableResolved ==
    phase = "done" =>
        \A m \in Reachable : m \in DOMAIN resolved \/ EventsOf("skip", m) # {}

\* a successful resolve whose closure holds every non-core module, one of
\* them only through a requirement
C6_Witness ==
    /\ phase = "done"
    /\ Reachable = NonCore
    /\ Len(reqs) = 1

\* ------------------------------------------------------------------------
\* C7: provided modules are bound to the record or an earlier one
\* ------------------------------------------------------------------------

Failures == {k \in DOMAIN trace : ~trace[k].ok /\ trace[k].op \in {"backpan", "download"}}

\* C8: a failed historical lookup or download is the last call made, Resolve
\* returns the error with no records, nothing of the partial resolved set is
\* left in the resolver, and every tarball downloaded before is on disk
C8_FailureDiscardsPartialSet ==
    phase = "failed" =>
        /\ Failures = {Len(trace)}
        /\ result = <<>>
        /\ resolved = NoPtrs
        /\ \A k \in Events("download") : trace[k].ok => trace[k].dest \in DOMAIN disk

\* ------------------------------------------------------------------------
\* C9: extraction failure gives a minimal record
\* ------------------------------------------------------------------------

Minimal(id) ==
    \E k \in Events("extract") : trace[k].id = id /\ ~trace[k].ok

\* C9: an extraction error is followed by the insertion of a record named
\* after the tarball, providing exactly the requested module at the requested
\* constraint and requiring nothing; its frame makes no nested call; and a
\* failed resolve never ends on an extraction
C9_MinimalRecord ==
    /\ \A k \in Events("extract") :
          /\ k + 1 \in Events("insert") /\ trace[k + 1].id = trace[k].id
          /\ ~trace[k].ok =>
                LET R == dists[trace[k].id]
                    file == R.Pathname[Len(R.Pathname)]
                IN  /\ R.Provides = (trace[k].module :> trace[k].version)
                    /\ R.Requirements = EmptyMap
                    /\ R.Name \o <<".tar.gz">> = file
    /\ \A j \in DOMAIN stack :
          (stack[j].d # 0 /\ Minimal(stack[j].d)) =>
              j = Len(stack) /\ stack[j].todo = {}
    /\ phase = "failed" => trace[Len(trace)].op \in {"backpan", "download"}

\* a resolve succeeded although a tarball had no usable metadata
C9_Witness ==
    /\ phase = "done"
    /\ \E id \in DOMAIN dists : Minimal(id) /\ id \in Range(result)

\* ------------------------------------------------------------------------
\* C10: source selection
\* ------------------------------------------------------------------------

\* the index has an entry for the module whose version satisfies the constraint
PrimarySatisfies(module, version) ==
    module \in DOMAIN modules /\ satisfies(modules[module].Version, version)

\* p is what follows the first "/authors/id/" of url, or its last segment
SuffixOrBase(url, p) ==
    LET marks == {i \in 2..(Len(url) - 2) :
                     url[i] = <<"authors">> /\ url[i + 1] = <<"id">>}
    IN  IF marks = {} THEN p = <<url[Len(url)]>>
        ELSE \E i \in marks :
                /\ \A j \in marks : i <= j
                /\ url = SubSeq(url, 1, i + 1) \o p

\* C10: a record's source is the primary index exactly when the index entry
\* of its module satisfies the requested constraint, with URL
\* <mirror>/authors/id/<pathname> and the cache path as destination;
\* otherwise the historical index was queried with the module and the
\* constraint, and the answer's URL gives the pathname (suffix after
\* /authors/id/, else the last segment) and the destination under the
\* historical directory; the historical index is never queried when the
\* primary entry satisfies the constraint
C10_SourceSelection ==
    /\ \A k \in Events("insert") :
          LET e == trace[k]
              R == dists[e.id]
          IN  /\ R.Source \in {"cpan", "backpan"}
              /\ R.Source = "cpan" <=> PrimarySatisfies(e.module, e.version)
              /\ R.Source = "cpan" =>
                    /\ R.Pathname = modules[e.module].Pathname
                    /\ e.url = Mirror \o << <<"authors">>, <<"id">> >> \o R.Pathname
                    /\ e.dest = CacheDir \o R.Pathname
              /\ R.Source = "backpan" =>
                    /\ \E q \in Events("backpan") :
                          /\ q < k /\ trace[q].ok
                          /\ trace[q].module = e.module
                          /\ trace[q].version = e.version
                          /\ trace[q].url = e.url
                    /\ SuffixOrBase(e.url, R.Pathname)
                    /\ e.dest = BackpanDir \o <<e.url[Len(e.url)]>>
    /\ \A q \in Events("backpan") :
          ~PrimarySatisfies(trace[q].module, trace[q].version)

\* records from both sources were made, one of them from a historical URL
\* without /authors/id/
C10_Witness ==
    /\ phase = "done"
    /\ \E i, j \in Range(result) :
          /\ dists[i].Source = "cpan"
          /\ dists[j].Source = "backpan"
          /\ Len(dists[j].Pathname) = 1

\* ========================================================================
\* The downloader (package downloader)
\* ========================================================================

\* the most workers a downloader is constructed with
MaxWorkers == 2

\* the longest batch handed to Download
MaxJobs == 2

\* the number of Download calls made of one downloader
MaxCalls == 2

\* the number of pieces io.Copy writes a body in
BodyChunks == 2

\* the resolver before Resolve, with an empty index
RsUnused ==
    /\ modules = <<>> /\ reqs = <<>> /\ phase = "idle" /\ next = 1
    /\ resolved = NoPtrs /\ resolving = {} /\ dists = <<>> /\ stack = <<>>
    /\ err = "none" /\ result = <<>> /\ disk = NoFiles /\ trace = <<>>

\* the Job values the resolver builds (resolveOne lines 122-126)
CpanJob(m) ==
    [URL |-> Mirror \o <<SegAuthors, SegId>> \o PathOf(m, "-1"),
     DestPath |-> CachePath(PathOf(m, "-1")),
     Source |-> "cpan"]

BackpanJob(url) ==
    [URL |-> url, DestPath |-> LocalPath(url), Source |-> "backpan"]

JobsOffered ==
    <<CpanJob("JSON"), CpanJob("Moo"),
      BackpanJob(CHOOSE u \in BackpanURLs("DBI") : AuthorsIdAt(u) = 0)>>

\* the sequence q restricted to the positions in keep
RECURSIVE Picked(_, _)
Picked(q, keep) ==
    IF q = <<>> THEN <<>>
    ELSE LET rest == Picked(Take(q, Len(q) - 1), keep)
         IN  IF Len(q) \in keep THEN Append(rest, q[Len(q)]) ELSE rest

\* the batches handed to Download: no two jobs of one batch share a destination
Batches ==
    {b \in {Picked(JobsOffered, keep) : keep \in SUBSET DOMAIN JobsOffered} :
        /\ Len(b) <= MaxJobs
        /\ \A i, j \in DOMAIN b : i # j => b[i].DestPath # b[j].DestPath}

\* the body a server sends with status 200 for a URL, in the pieces it is copied in
Body(url) == [k \in 1..BodyChunks |-> <<url, k>>]

\* a download written in place
InPlace(destPath) == destPath

\* downloadOne line 363: job.DestPath + ".tmp"
TmpPath(destPath) ==
    [destPath EXCEPT ![Len(destPath)] = @ \o <<".tmp">>]

\* a downloader that never finds a file
NeverExists(path) == FALSE

\* os.Stat(path) succeeds
Exists(path) == path \in DOMAIN files

\* os.Remove(path), its error ignored
Removed(fs, path) == [q \in DOMAIN fs \ {path} |-> fs[q]]

\* a file written or replaced
Stored(fs, path, content) == [q \in DOMAIN fs \cup {path} |-> IF q = path THEN content ELSE fs[q]]

\* Result.Error: "none" (nil), "status" (a status other than 200) or "io" (a
\* transport or file system error)
Result(job, error) == [Job |-> job, Error |-> error]

\* the worker goroutines Download starts (line 312)
Workers == 1..workers

JobOf(w) == jobs[wk[w].job]

\* the worker is at this place of downloadOne
At(w, pc) == dlpc = "running" /\ w \in Workers /\ wk[w].pc = pc

\* channels that hold nothing: every send waits for its receiver
Unbuffered(n) == 0

\* Download lines 308-309: make(chan, len(jobs)), the sends a channel takes
\* before a send blocks
Capacity(n) == n

\* downloadOne returns error e, and the worker publishes the result (line 317)
Finish(w, e) ==
    /\ Len(resultChan) < Capacity(Len(jobs))
    /\ resultChan' = Append(resultChan, Result(JobOf(w), e))
    /\ wk' = [wk EXCEPT ![w] = [pc |-> "wait", job |-> 0, off |-> 0]]

DlInit ==
    /\ RsUnused /\ LdUnused /\ SnUnused /\ FnUnused
    /\ workers \in 0..MaxWorkers
    /\ dlpc = "idle" /\ jobs = <<>> /\ pushed = 0
    /\ jobChan = <<>> /\ chanClosed = FALSE /\ resultChan = <<>>
    /\ results = <<>> /\ wk = <<>> /\ requests = <<>>
    /\ taken = <<>> /\ calls = 0
    /\ files \in {<<>>, Stored(<<>>, CpanJob("JSON").DestPath, Body(CpanJob("JSON").URL))}

\* Download lines 299-321: the cache directory exists, the channels are made
\* and the workers started
DlCall ==
    /\ UNCHANGED <<vars, ldVars, snVars, fnVars>>
    /\ dlpc \in {"idle", "returned"}
    /\ calls < MaxCalls
    /\ \E b \in Batches : jobs' = b
    /\ dlpc' = "running"
    /\ pushed' = 0 /\ jobChan' = <<>> /\ chanClosed' = FALSE
    /\ resultChan' = <<>> /\ results' = <<>>
    /\ wk' = [w \in Workers |-> [pc |-> "wait", job |-> 0, off |-> 0]]
    /\ requests' = [i \in DOMAIN jobs' |-> <<>>]
    /\ taken' = [i \in DOMAIN jobs' |-> 0]
    /\ calls' = calls + 1
    /\ UNCHANGED <<workers, files>>

\* Download lines 300-306: MkdirAll of the cache directory fails
DlCallMkdirFail ==
    /\ UNCHANGED <<vars, ldVars, snVars, fnVars>>
    /\ dlpc \in {"idle", "returned"}
    /\ calls < MaxCalls
    /\ \E b \in Batches :
          /\ jobs' = b
          /\ results' = [i \in DOMAIN b |-> Result(b[i], "io")]
    /\ dlpc' = "returned"
    /\ pushed' = 0 /\ jobChan' = <<>> /\ chanClosed' = FALSE
    /\ resultChan' = <<>>
    /\ wk' = [w \in Workers |-> [pc |-> "exit", job |-> 0, off |-> 0]]
    /\ requests' = [i \in DOMAIN jobs' |-> <<>>]
    /\ taken' = [i \in DOMAIN jobs' |-> 0]
    /\ calls' = calls + 1
    /\ UNCHANGED <<workers, files>>

\* Download lines 323-325: the next job is sent (the channel holds len(jobs))
DlPush ==
    /\ UNCHANGED <<vars, ldVars, snVars, fnVars>>
    /\ dlpc = "running" /\ pushed < Len(jobs)
    /\ Len(jobChan) < Capacity(Len(jobs))
    /\ pushed' = pushed + 1
    /\ jobChan' = Append(jobChan, pushed + 1)
    /\ UNCHANGED <<workers, dlpc, jobs, chanClosed, resultChan, results, wk,
                   files, requests, taken, calls>>

\* Download line 326
DlClose ==
    /\ UNCHANGED <<vars, ldVars, snVars, fnVars>>
    /\ dlpc = "running" /\ pushed = Len(jobs) /\ ~chanClosed
    /\ chanClosed' = TRUE
    /\ UNCHANGED <<workers, dlpc, jobs, pushed, jobChan, resultChan, results,
                   wk, files, requests, taken, calls>>

\* Download lines 334-336: a result is received and appended
DlCollect ==
    /\ UNCHANGED <<vars, ldVars, snVars, fnVars>>
    /\ dlpc = "running" /\ chanClosed /\ resultChan # <<>>
    /\ results' = Append(results, Head(resultChan))
    /\ resultChan' = Tail(resultChan)
    /\ UNCHANGED <<workers, dlpc, jobs, pushed, jobChan, chanClosed, wk, files,
                   requests, taken, calls>>

\* Download lines 328-331 and 338: every worker is done, resultChan is closed
\* and drained, Download returns
DlReturn ==
    /\ UNCHANGED <<vars, ldVars, snVars, fnVars>>
    /\ dlpc = "running" /\ chanClosed /\ resultChan = <<>>
    /\ \A w \in Workers : wk[w].pc = "exit"
    /\ dlpc' = "returned"
    /\ UNCHANGED <<workers, jobs, pushed, jobChan, chanClosed, resultChan,
                   results, wk, files, requests, taken, calls>>

\* Download line 315: a worker receives a job
WkTake(w) ==
    /\ UNCHANGED <<vars, ldVars, snVars, fnVars>>
    /\ At(w, "wait") /\ jobChan # <<>>
    /\ wk' = [wk EXCEPT ![w] = [pc |-> "stat", job |-> Head(jobChan), off |-> 0]]
    /\ jobChan' = Tail(jobChan)
    /\ taken' = [taken EXCEPT ![Head(jobChan)] = @ + 1]
    /\ UNCHANGED <<workers, dlpc, jobs, pushed, chanClosed, resultChan, results,
                   files, requests, calls>>

\* Download lines 314-315: the channel is closed and empty, the worker ends
WkExit(w) ==
    /\ UNCHANGED <<vars, ldVars, snVars, fnVars>>
    /\ At(w, "wait") /\ jobChan = <<>> /\ chanClosed
    /\ wk' = [wk EXCEPT ![w].pc = "exit"]
    /\ UNCHANGED <<workers, dlpc, jobs, pushed, jobChan, chanClosed, resultChan,
                   results, files, requests, taken, calls>>

\* downloadOne lines 343-345: the destination exists
WkCached(w) ==
    /\ UNCHANGED <<vars, ldVars, snVars, fnVars>>
    /\ At(w, "stat") /\ Exists(JobOf(w).DestPath)
    /\ Finish(w, "none")
    /\ UNCHANGED <<workers, dlpc, jobs, pushed, jobChan, chanClosed, results,
                   files, requests, taken, calls>>

\* downloadOne lines 343-350: the destination is missing, and MkdirAll of its
\* directory fails
WkMkdirFail(w) ==
    /\ UNCHANGED <<vars, ldVars, snVars, fnVars>>
    /\ At(w, "stat") /\ ~Exists(JobOf(w).DestPath)
    /\ Finish(w, "io")
    /\ UNCHANGED <<workers, dlpc, jobs, pushed, jobChan, chanClosed, results,
                   files, requests, taken, calls>>

\* downloadOne lines 343-360: the destination is missing; the request fails
\* ("io"), or is answered with a status other than 200 ("status")
WkGetFail(w) ==
    /\ UNCHANGED <<vars, ldVars, snVars, fnVars>>
    /\ At(w, "stat") /\ ~Exists(JobOf(w).DestPath)
    /\ \E answer \in {"error", "404"} :
          /\ requests' = [requests EXCEPT ![wk[w].job] = Append(@, answer)]
          /\ Finish(w, IF answer = "404" THEN "status" ELSE "io")
    /\ UNCHANGED <<workers, dlpc, jobs, pushed, jobChan, chanClosed, results,
                   files, taken, calls>>

\* downloadOne lines 343-360: the destination is missing; status 200
WkGet(w) ==
    /\ UNCHANGED <<vars, ldVars, snVars, fnVars>>
    /\ At(w, "stat") /\ ~Exists(JobOf(w).DestPath)
    /\ requests' = [requests EXCEPT ![wk[w].job] = Append(@, "200")]
    /\ wk' = [wk EXCEPT ![w].pc = "create"]
    /\ UNCHANGED <<workers, dlpc, jobs, pushed, jobChan, chanClosed, resultChan,
                   results, files, taken, calls>>

\* downloadOne lines 363-367: os.Create fails
WkCreateFail(w) ==
    /\ UNCHANGED <<vars, ldVars, snVars, fnVars>>
    /\ At(w, "create")
    /\ Finish(w, "io")
    /\ UNCHANGED <<workers, dlpc, jobs, pushed, jobChan, chanClosed, results,
                   files, requests, taken, calls>>

\* downloadOne lines 363-364: the temporary file is created empty
WkCreate(w) ==
    /\ UNCHANGED <<vars, ldVars, snVars, fnVars>>
    /\ At(w, "create")
    /\ files' = Stored(files, TmpPath(JobOf(w).DestPath), <<>>)
    /\ wk' = [wk EXCEPT ![w].pc = "copy"]
    /\ UNCHANGED <<workers, dlpc, jobs, pushed, jobChan, chanClosed, resultChan,
                   results, requests, taken, calls>>

\* downloadOne line 369: io.Copy writes the next piece of the body
WkWrite(w) ==
    /\ UNCHANGED <<vars, ldVars, snVars, fnVars>>
    /\ At(w, "copy") /\ wk[w].off < BodyChunks
    /\ LET tmp == TmpPath(JobOf(w).DestPath)
       IN  files' = Stored(files, tmp,
                           Append(files[tmp], Body(JobOf(w).URL)[wk[w].off + 1]))
    /\ wk' = [wk EXCEPT ![w].off = @ + 1]
    /\ UNCHANGED <<workers, dlpc, jobs, pushed, jobChan, chanClosed, resultChan,
                   results, requests, taken, calls>>

\* downloadOne lines 369-374: the copy fails, the temporary file is removed
WkWriteFail(w) ==
    /\ UNCHANGED <<vars, ldVars, snVars, fnVars>>
    /\ At(w, "copy") /\ wk[w].off < BodyChunks
    /\ files' = Removed(files, TmpPath(JobOf(w).DestPath))
    /\ Finish(w, "io")
    /\ UNCHANGED <<workers, dlpc, jobs, pushed, jobChan, chanClosed, results,
                   requests, taken, calls>>

\* downloadOne lines 376-381: the temporary file is renamed to the destination
WkRename(w) ==
    /\ UNCHANGED <<vars, ldVars, snVars, fnVars>>
    /\ At(w, "copy") /\ wk[w].off = BodyChunks
    /\ LET tmp == TmpPath(JobOf(w).DestPath)
       IN  files' = Removed(Stored(files, JobOf(w).DestPath, files[tmp]), tmp)
    /\ Finish(w, "none")
    /\ UNCHANGED <<workers, dlpc, jobs, pushed, jobChan, chanClosed, results,
                   requests, taken, calls>>

\* downloadOne lines 376-379: the rename fails, the temporary file is removed
WkRenameFail(w) ==
    /\ UNCHANGED <<vars, ldVars, snVars, fnVars>>
    /\ At(w, "copy") /\ wk[w].off = BodyChunks
    /\ files' = Removed(files, TmpPath(JobOf(w).DestPath))
    /\ Finish(w, "io")
    /\ UNCHANGED <<workers, dlpc, jobs, pushed, jobChan, chanClosed, results,
                   requests, taken, calls>>

DlNext ==
    \/ DlCall
    \/ DlCallMkdirFail
    \/ DlPush
    \/ DlClose
    \/ DlCollect
    \/ DlReturn
    \/ \E w \in 1..MaxWorkers : WkTake(w)
    \/ \E w \in 1..MaxWorkers : WkExit(w)
    \/ \E w \in 1..MaxWorkers : WkCached(w)
    \/ \E w \in 1..MaxWorkers : WkMkdirFail(w)
    \/ \E w \in 1..MaxWorkers : WkGetFail(w)
    \/ \E w \in 1..MaxWorkers : WkGet(w)
    \/ \E w \in 1..MaxWorkers : WkCreateFail(w)
    \/ \E w \in 1..MaxWorkers : WkCreate(w)
    \/ \E w \in 1..MaxWorkers : WkWrite(w)
    \/ \E w \in 1..MaxWorkers : WkWriteFail(w)
    \/ \E w \in 1..MaxWorkers : WkRename(w)
    \/ \E w \in 1..MaxWorkers : WkRenameFail(w)

DlSpec == DlInit /\ [][DlNext]_dlVars

\* the number of Download calls followed to their end
MaxFairCalls == 1

\* the downloader with that many calls
DlFairNext == DlNext /\ calls' <= MaxFairCalls

\* the steps of the goroutine that called Download, once it is running
DlMain == DlPush \/ DlClose \/ DlCollect \/ DlReturn

\* the steps of worker goroutine w
WkStep(w) ==
    \/ WkTake(w) \/ WkExit(w) \/ WkCached(w) \/ WkMkdirFail(w) \/ WkGetFail(w)
    \/ WkGet(w) \/ WkCreateFail(w) \/ WkCreate(w) \/ WkWrite(w)
    \/ WkWriteFail(w) \/ WkRename(w) \/ WkRenameFail(w)

\* the Go scheduler runs some goroutine as long as one can take a step, and
\* every request and file operation ends; nothing makes a caller call Download
DlFairSpec ==
    /\ DlInit /\ [][DlFairNext]_dlVars
    /\ WF_dlVars(DlMain \/ \E w \in 1..MaxWorkers : WkStep(w))

\* ------------------------------------------------------------------------
\* C11: one result per job
\* ------------------------------------------------------------------------

CountIn(q, x) == Cardinality({i \in DOMAIN q : q[i] = x})

\* C11: when Download has returned, every job occurs in the results as often
\* as in the batch (and nothing else occurs), each result carrying success or
\* an error
C11_OneResultPerJob ==
    dlpc = "returned" =>
        /\ \A j \in Range(jobs) \cup {r.Job : r \in Range(results)} :
              CountIn([i \in DOMAIN results |-> results[i].Job], j) = CountIn(jobs, j)
        /\ \A r \in Range(results) : r.Error \in {"none", "status", "io"}

\* ------------------------------------------------------------------------
\* C12: cache honoring
\* ------------------------------------------------------------------------

\* C12: a worker that processes a job whose destination file exists publishes
\* a success for it, and that step makes no HTTP request and changes no file
C12_CacheHonoring ==
    [][\A w \in 1..MaxWorkers :
          (/\ At(w, "stat")
           /\ JobOf(w).DestPath \in DOMAIN files
           /\ wk'[w] # wk[w]) =>
              /\ requests' = requests
              /\ files' = files
              /\ resultChan' = Append(resultChan, Result(JobOf(w), "none"))]_dlVars

\* the second Download call of a job whose file the first call fetched has
\* returned a success without a request
C12_Witness ==
    /\ calls = 2 /\ dlpc = "returned"
    /\ \E i \in DOMAIN jobs :
          /\ jobs[i] = CpanJob("Moo")
          /\ requests[i] = <<>>
          /\ Result(jobs[i], "none") \in Range(results)

\* ------------------------------------------------------------------------
\* C13: the destination is present or absent
\* ------------------------------------------------------------------------

\* the results published in this call, collected or not
Published == Range(resultChan) \cup Range(results)

\* C13: every destination file holds the complete body of a 200 response for
\* a job with that destination; a job a worker processed and ended in error
\* has neither a destination file nor a .tmp file; a request answered with
\* another status than 200 gives an error result
C13_PresentOrAbsent ==
    /\ \A i \in DOMAIN JobsOffered :
          LET j == JobsOffered[i]
          IN  j.DestPath \in DOMAIN files => files[j.DestPath] = Body(j.URL)
    /\ \A i \in DOMAIN jobs :
          \A r \in Published :
              (r.Job = jobs[i] /\ r.Error # "none" /\ taken[i] > 0) =>
                  /\ jobs[i].DestPath \notin DOMAIN files
                  /\ TmpPath(jobs[i].DestPath) \notin DOMAIN files
    /\ \A i \in DOMAIN jobs :
          \A r \in Published :
              (r.Job = jobs[i] /\ "404" \in Range(requests[i])) => r.Error = "status"

\* one job failed after its 200 response and left nothing, another was stored
C13_Witness ==
    /\ dlpc = "returned"
    /\ \E i, k \in DOMAIN jobs :
          /\ requests[i] = <<"200">> /\ Result(jobs[i], "io") \in Range(results)
          /\ jobs[i].DestPath \notin DOMAIN files
          /\ requests[k] = <<"200">> /\ Result(jobs[k], "none") \in Range(results)
          /\ jobs[k].DestPath \in DOMAIN files

\* ------------------------------------------------------------------------
\* C14: bounded parallelism
\* ------------------------------------------------------------------------

\* the workers inside downloadOne
Fetching == {w \in DOMAIN wk : wk[w].pc \in {"stat", "create", "copy"}}

\* C14: at most W jobs are being fetched at a time, and each job put on the
\* job queue is taken by exactly one worker: never by two, and by one when
\* Download returns
C14_BoundedParallelism ==
    /\ Cardinality(Fetching) <= workers
    /\ \A i \in DOMAIN jobs : taken[i] <= 1
    /\ (dlpc = "returned" /\ pushed = Len(jobs)) =>
          \A i \in DOMAIN jobs : taken[i] = 1

\* ========================================================================
\* The primary index: CPANIndex.Load (package index)
\* ========================================================================

\* cacheTTL, in hours
cacheTTL == 24

\* the number of Load calls made on one cache directory
MaxLoads == 2

\* the ages, in hours, a cache file is found with
Ages == {0, 23, 24, 25}

\* a line of the index file is a sequence of pieces: a run of white space,
\* or a run of other characters (a field)
Gap == [space |-> TRUE, v |-> " "]

Field(x) == [space |-> FALSE, v |-> x]

\* strings.Fields(line)
RECURSIVE Fields(_)
Fields(line) ==
    IF line = <<>> THEN <<>>
    ELSE IF Head(line).space THEN Fields(Tail(line))
    ELSE <<Head(line).v>> \o Fields(Tail(line))

\* the index file as lines: the header, the empty line that ends it, then
\* the entries
IndexText(table) ==
    << <<Field("File:"), Gap, Field("02packages.details.txt")>>, <<>> >>
        \o [i \in 1..Len(table) |->
               <<Field(table[i].Module), Gap, Field(table[i].Version), Gap,
                 Field(table[i].Pathname)>>]

\* what the mirror serves, decompressed
NewText ==
    IndexText(<<[Module |-> "JSON", Version |-> V1, Pathname |-> PathOf("JSON", "-1")],
                [Module |-> "Moo", Version |-> Undef, Pathname |-> PathOf("Moo", "-1")]>>)

\* what an earlier Load left in the cache file (a line of two fields among them)
OldText ==
    IndexText(<<[Module |-> "Moo", Version |-> V2, Pathname |-> PathOf("Moo", "-1")],
                [Module |-> "DBI", Version |-> V1, Pathname |-> PathOf("DBI", "-1")]>>)
        \o << <<Field("Broken"), Gap, Field(V1)>> >>

\* download line 66: <mirror>/modules/02packages.details.txt.gz
IndexURL == Mirror \o << <<"modules">>, <<"02packages.details.txt", ".gz">> >>

NoCache == [exists |-> FALSE, content |-> <<>>, age |-> 0]

\* parseCache lines 106-134, from line i on
RECURSIVE ParseFrom(_, _, _, _)
ParseFrom(lines, i, inHeader, table) ==
    IF i > Len(lines) THEN table
    ELSE LET fields == Fields(lines[i]) IN
         IF inHeader THEN ParseFrom(lines, i + 1, Len(lines[i]) # 0, table)
         ELSE IF Len(fields) < 3 THEN ParseFrom(lines, i + 1, FALSE, table)
         ELSE ParseFrom(lines, i + 1, FALSE,
                        [m \in DOMAIN table \cup {fields[1]} |->
                            IF m = fields[1]
                            THEN [Module |-> fields[1], Version |-> fields[2],
                                  Pathname |-> fields[3]]
                            ELSE table[m]])

\* a parser that takes the first line for an entry
parseHeaderless(lines) == ParseFrom(lines, 1, FALSE, <<>>)

parseCache(lines) == ParseFrom(lines, 1, TRUE, <<>>)

\* CPANIndex.Lookup lines 140-143 on the map table
LookupIn(table, module) ==
    IF module \in DOMAIN table THEN [ok |-> TRUE, entry |-> table[module]]
    ELSE [ok |-> FALSE,
          entry |-> [Module |-> "", Version |-> <<>>, Pathname |-> <<>>]]

\* a Load that refreshes whenever a cache file exists or not
NeverValid == FALSE

\* isCacheValid lines 57-63
isCacheValid == cache.exists /\ cache.age < cacheTTL

LdInit ==
    /\ RsUnused /\ DlUnused /\ SnUnused /\ FnUnused
    /\ ldpc = "idle"
    /\ cache \in {NoCache} \cup {[exists |-> TRUE, content |-> OldText, age |-> a] : a \in Ages}
    /\ ldBody = <<>>
    /\ ldModules = <<>>
    /\ ldRequests = <<>>
    /\ ldStart = [found |-> NoCache, loads |-> 0]

\* the Load calls made so far
Loads == ldStart.loads

\* Load is not running
LdResting == ldpc \in {"idle", "loaded", "failed"}

\* time passes between two Load calls
LdTick ==
    /\ UNCHANGED <<vars, dlVars, snVars, fnVars>>
    /\ LdResting /\ cache.exists
    /\ \E a \in Ages : a > cache.age /\ cache' = [cache EXCEPT !.age = a]
    /\ UNCHANGED <<ldpc, ldBody, ldModules, ldRequests, ldStart>>

\* Load lines 41-47: the directory exists and the cache file is valid
LdValid ==
    /\ UNCHANGED <<vars, dlVars, snVars, fnVars>>
    /\ LdResting /\ Loads < MaxLoads
    /\ isCacheValid
    /\ ldpc' = "parse"
    /\ ldStart' = [found |-> cache, loads |-> Loads + 1]
    /\ ldRequests' = <<>> /\ ldModules' = <<>> /\ ldBody' = <<>>
    /\ UNCHANGED cache

\* Load lines 41-51: the directory exists and the cache file is missing or old
LdStale ==
    /\ UNCHANGED <<vars, dlVars, snVars, fnVars>>
    /\ LdResting /\ Loads < MaxLoads
    /\ ~isCacheValid
    /\ ldpc' = "get"
    /\ ldStart' = [found |-> cache, loads |-> Loads + 1]
    /\ ldRequests' = <<>> /\ ldModules' = <<>> /\ ldBody' = <<>>
    /\ UNCHANGED cache

\* Load lines 42-44: MkdirAll fails
LdMkdirFail ==
    /\ UNCHANGED <<vars, dlVars, snVars, fnVars>>
    /\ LdResting /\ Loads < MaxLoads
    /\ ldpc' = "failed"
    /\ ldStart' = [found |-> cache, loads |-> Loads + 1]
    /\ ldRequests' = <<>> /\ ldModules' = <<>> /\ ldBody' = <<>>
    /\ UNCHANGED cache

\* download lines 68-76: the request fails or is answered with another status
\* than 200
LdGetFail ==
    /\ UNCHANGED <<vars, dlVars, snVars, fnVars>>
    /\ ldpc = "get"
    /\ ldRequests' = Append(ldRequests, IndexURL)
    /\ ldpc' = "failed"
    /\ UNCHANGED <<cache, ldBody, ldModules, ldStart>>

\* download lines 68-76: status 200; the body is a gzip stream that is sound,
\* has no gzip header, or breaks after some of its lines
LdGet ==
    /\ UNCHANGED <<vars, dlVars, snVars, fnVars>>
    /\ ldpc = "get"
    /\ ldRequests' = Append(ldRequests, IndexURL)
    /\ \E kind \in {"sound", "noheader", "broken"} :
          ldBody' = [kind |-> kind, off |-> 0]
    /\ ldpc' = "gunzip"
    /\ UNCHANGED <<cache, ldModules, ldStart>>

\* download lines 78-81: gzip.NewReader fails
LdGunzipFail ==
    /\ UNCHANGED <<vars, dlVars, snVars, fnVars>>
    /\ ldpc = "gunzip" /\ ldBody.kind = "noheader"
    /\ ldpc' = "failed"
    /\ UNCHANGED <<cache, ldBody, ldModules, ldRequests, ldStart>>

\* download lines 84-87: os.Create fails
LdCreateFail ==
    /\ UNCHANGED <<vars, dlVars, snVars, fnVars>>
    /\ ldpc = "gunzip" /\ ldBody.kind # "noheader"
    /\ ldpc' = "failed"
    /\ UNCHANGED <<cache, ldBody, ldModules, ldRequests, ldStart>>

\* download line 84: os.Create makes the cache file, or truncates the one there
LdCreate ==
    /\ UNCHANGED <<vars, dlVars, snVars, fnVars>>
    /\ ldpc = "gunzip" /\ ldBody.kind # "noheader"
    /\ cache' = [exists |-> TRUE, content |-> <<>>, age |-> 0]
    /\ ldpc' = "copy"
    /\ UNCHANGED <<ldBody, ldModules, ldRequests, ldStart>>

\* download line 90: io.Copy writes the next decompressed line
LdCopy ==
    /\ UNCHANGED <<vars, dlVars, snVars, fnVars>>
    /\ ldpc = "copy" /\ ldBody.off < Len(NewText)
    /\ cache' = [cache EXCEPT !.content = Append(@, NewText[ldBody.off + 1])]
    /\ ldBody' = [ldBody EXCEPT !.off = @ + 1]
    /\ UNCHANGED <<ldpc, ldModules, ldRequests, ldStart>>

\* download lines 90-92: the stream breaks, or a write fails
LdCopyFail ==
    /\ UNCHANGED <<vars, dlVars, snVars, fnVars>>
    /\ ldpc = "copy"
    /\ ldBody.off < Len(NewText) \/ ldBody.kind = "broken"
    /\ ldpc' = "failed"
    /\ UNCHANGED <<cache, ldBody, ldModules, ldRequests, ldStart>>

\* download line 94: the copy is complete
LdCopied ==
    /\ UNCHANGED <<vars, dlVars, snVars, fnVars>>
    /\ ldpc = "copy" /\ ldBody.off = Len(NewText) /\ ldBody.kind = "sound"
    /\ ldpc' = "parse"
    /\ UNCHANGED <<cache, ldBody, ldModules, ldRequests, ldStart>>

\* Load lines 47 and 54: parseCache
LdParse ==
    /\ UNCHANGED <<vars, dlVars, snVars, fnVars>>
    /\ ldpc = "parse"
    /\ ldModules' = parseCache(cache.content)
    /\ ldpc' = "loaded"
    /\ UNCHANGED <<cache, ldBody, ldRequests, ldStart>>

\* parseCache lines 98-101: the cache file cannot be opened
LdParseFail ==
    /\ UNCHANGED <<vars, dlVars, snVars, fnVars>>
    /\ ldpc = "parse"
    /\ ldpc' = "failed"
    /\ UNCHANGED <<cache, ldBody, ldModules, ldRequests, ldStart>>

LdNext ==
    \/ LdTick
    \/ LdValid
    \/ LdStale
    \/ LdMkdirFail
    \/ LdGetFail
    \/ LdGet
    \/ LdGunzipFail
    \/ LdCreateFail
    \/ LdCreate
    \/ LdCopy
    \/ LdCopyFail
    \/ LdCopied
    \/ LdParse
    \/ LdParseFail

LdSpec == LdInit /\ [][LdNext]_ldVars

\* ------------------------------------------------------------------------
\* C15: freshness of the primary index
\* ------------------------------------------------------------------------

\* the cache file Load found was younger than 24 hours
FoundFresh == ldStart.found.exists /\ ldStart.found.age < cacheTTL

\* C15: a Load that finds a cache file younger than 24 hours makes no request,
\* leaves the file alone and parses it; any other Load makes one request, of
\* <mirror>/modules/02packages.details.txt.gz, and when it succeeds the cache
\* file holds the decompressed text and the index is parsed from it
C15_Freshness ==
    ldpc # "idle" =>
        /\ FoundFresh =>
              /\ ldRequests = <<>>
              /\ cache.exists /\ cache.content = ldStart.found.content
              /\ ldpc = "loaded" => ldModules = parseCache(ldStart.found.content)
        /\ ~FoundFresh =>
              /\ ldRequests \in {<<>>, <<IndexURL>>}
              /\ ldpc \in {"gunzip", "copy", "parse", "loaded"} =>
                    ldRequests = <<IndexURL>>
              /\ ldpc \in {"parse", "loaded"} =>
                    cache.exists /\ cache.content = NewText
              /\ ldpc = "loaded" =>
                    /\ ldModules \in IndexTables
                    /\ DOMAIN ldModules = {"JSON", "Moo"}
                    /\ ldModules["Moo"].Version = Undef

\* a cache file exactly 24 hours old was replaced by a fetch and parsed
C15_Witness ==
    /\ ldpc = "loaded"
    /\ ldStart.found.exists /\ ldStart.found.age = cacheTTL
    /\ ldRequests = <<IndexURL>>
    /\ cache.content = NewText
    /\ DOMAIN ldModules = {"JSON", "Moo"}

\* ------------------------------------------------------------------------
\* C16: the cache file is replaced atomically
\* ------------------------------------------------------------------------

\* C16: during a Load and after it, failed or not, the cache file is as Load
\* found it or holds the complete new text
C16_AtomicReplace ==
    ldpc # "idle" =>
        \/ cache.exists = ldStart.found.exists /\ cache.content = ldStart.found.content
        \/ cache.exists /\ cache.content = NewText

\* ------------------------------------------------------------------------
\* C39: a Load after a failed refresh
\* ------------------------------------------------------------------------

\* the last Load made its request and failed in download (lines 65-95)
RefreshFailed == ldpc = "failed" /\ ldRequests = <<IndexURL>>

\* C39: A failed index refresh is retried. When a Load has failed while
\* fetching, decompressing or writing the index, the next Load takes the
\* cache-valid path only on the cache file as the failed Load found it (a
\* complete earlier cache), never on a file the failed attempt left.
C39_RefreshRetried ==
    [][(RefreshFailed /\ ldpc' = "parse") =>
          /\ cache.exists = ldStart.found.exists
          /\ cache.content = ldStart.found.content]_ldVars

\* ---------------------------------------------------------------------
\* The snapshot: runSnapshot's deduplication, Emitter.Emit and Parser.Parse.
\* A text is the sequence of its bytes, "\n" included; a record's strings
\* are sequences of bytes too.
\* ---------------------------------------------------------------------

\* the largest number of records handed to the emitter, and of blocks in a text
MaxDists == 2

\* the bytes the texts use, in byte order
Bytes ==
    <<"\n", " ", "#", ",", "-", ".", "/", "0", "1", "2", ":", "<", "=",
      ">", "A", "B", "C", "D", "I", "N", "O", "R", "S", "T", "U", "X", "Y",
      "a", "b", "c", "d", "e", "f", "g", "h", "i", "j", "k", "l", "m", "n",
      "o", "p", "q", "r", "s", "t", "u", "v", "w", "x", "y", "z">>

Code(c) == CHOOSE i \in DOMAIN Bytes : Bytes[i] = c

\* Go's s < t on strings: byte-wise, a proper prefix comes first
RECURSIVE Less(_, _)
Less(s, t) ==
    IF t = <<>> THEN FALSE
    ELSE IF s = <<>> THEN TRUE
    ELSE IF Head(s) = Head(t) THEN Less(Tail(s), Tail(t))
    ELSE Code(Head(s)) < Code(Head(t))

Spaces(n) == [i \in 1..n |-> " "]

header ==
    <<"#", " ", "c", "a", "r", "t", "o", "n", " ", "s", "n", "a", "p", "s",
      "h", "o", "t", " ", "f", "o", "r", "m", "a", "t", ":", " ", "v", "e",
      "r", "s", "i", "o", "n", " ", "1", ".", "0", "\n">>

Marker == <<"D", "I", "S", "T", "R", "I", "B", "U", "T", "I", "O", "N", "S">>

PathnameKey == <<"p", "a", "t", "h", "n", "a", "m", "e", ":", " ">>

ProvidesKey == <<"p", "r", "o", "v", "i", "d", "e", "s", ":">>

RequirementsKey == <<"r", "e", "q", "u", "i", "r", "e", "m", "e", "n", "t", "s", ":">>

Dist(name, pathname, provides, requirements, source) ==
    [Name |-> name, Pathname |-> pathname, Provides |-> provides,
     Requirements |-> requirements, Source |-> source]

\* the records a resolve may hand over: two of one name under different
\* authors, two of one pathname, modules out of order, constraints with
\* an operator, a range and no version
DistPool ==
    { Dist(<<"A", "-", "1">>, <<"X", "/", "A", "-", "1">>, <<"A">> :> V1, EmptyMap, "cpan"),
      Dist(<<"A", "-", "1">>, <<"Y", "/", "A", "-", "1">>, <<"A">> :> Empty,
           <<"B">> :> GE2, "backpan"),
      Dist(<<"A", "-", "1">>, <<"X", "/", "A", "-", "1">>, (<<"B">> :> V2) @@ (<<"A">> :> V1),
           <<"C">> :> GE1LT2, "cpan"),
      Dist(<<"B", "-", "2">>, <<"X", "/", "B", "-", "2">>, (<<"B">> :> V2) @@ (<<"A">> :> V1),
           (<<"C">> :> Empty) @@ (<<"A">> :> V0), "cpan") }

DistLists == SeqsUpTo(DistPool, MaxDists)

\* runSnapshot's loop over dists: seen is the map of pathnames met so far
RECURSIVE uniqueFrom(_, _, _)
uniqueFrom(ds, seen, out) ==
    IF ds = <<>> THEN out
    ELSE IF Head(ds).Pathname \in seen THEN uniqueFrom(Tail(ds), seen, out)
    ELSE uniqueFrom(Tail(ds), seen \cup {Head(ds).Pathname}, Append(out, Head(ds)))

\* a writer that passes Resolve's list on as it is
KeepAll(ds) == ds

uniqueDists(ds) == uniqueFrom(ds, {}, <<>>)

\* sort.Slice on a short slice is an insertion sort: the record moves left
\* while its name is less than its left neighbour's
RECURSIVE Inserted(_, _)
Inserted(left, d) ==
    IF left # <<>> /\ Less(d.Name, left[Len(left)].Name)
    THEN Append(Inserted(Take(left, Len(left) - 1), d), left[Len(left)])
    ELSE Append(left, d)

RECURSIVE SortedFrom(_, _)
SortedFrom(ds, left) ==
    IF ds = <<>> THEN left ELSE SortedFrom(Tail(ds), Inserted(left, Head(ds)))

\* the copy left in the order given
unsorted(ds) == ds

\* Emit's copy of dists after sort.Slice by Name
sorted(ds) == SortedFrom(ds, <<>>)

\* sort.Strings
RECURSIVE SortStrings(_)
SortStrings(keys) ==
    IF keys = {} THEN <<>>
    ELSE LET k == CHOOSE x \in keys : \A y \in keys : ~Less(y, x)
         IN  <<k>> \o SortStrings(keys \ {k})

RECURSIVE Reversed(_)
Reversed(q) == IF q = <<>> THEN <<>> ELSE Append(Reversed(Tail(q)), Head(q))

\* the keys in an order the map happens to give them in
keysDescending(m) == Reversed(SortStrings(DOMAIN m))

sortedKeys(m) == SortStrings(DOMAIN m)

\* the emitter's normalizeVersion (the resolver's comparison has its own)
emitterNormalizeVersion(v0) ==
    LET v1 == TrimSpace(v0)
        v2 == IF "," \in {v1[i] : i \in DOMAIN v1} THEN TrimSpace(Split(v1, ",")[1]) ELSE v1
        v3 == TrimPrefix(v2, <<">", "=">>)
        v4 == TrimPrefix(v3, <<">">>)
        v5 == TrimPrefix(v4, <<"=", "=">>)
        v6 == TrimPrefix(v5, <<"=">>)
        v7 == TrimSpace(v6)
    IN  IF v1 = <<>> \/ v7 = <<>> THEN V0 ELSE v7

\* Fprintf(w, "      %s %s\n", mod, ver) for each module of the sorted keys
RECURSIVE ModuleLines(_, _)
ModuleLines(keys, vers) ==
    IF keys = <<>> THEN <<>>
    ELSE Spaces(6) \o Head(keys) \o <<" ">> \o vers[Head(keys)] \o <<"\n">>
         \o ModuleLines(Tail(keys), vers)

emitDist(d) ==
    LET provided == [k \in DOMAIN d.Provides |->
                        IF d.Provides[k] = Empty THEN Undef ELSE d.Provides[k]]
        required == [k \in DOMAIN d.Requirements |->
                        emitterNormalizeVersion(d.Requirements[k])]
    IN  Spaces(2) \o d.Name \o <<"\n">>
        \o Spaces(4) \o PathnameKey \o d.Pathname \o <<"\n">>
        \o (IF DOMAIN d.Provides # {}
            THEN Spaces(4) \o ProvidesKey \o <<"\n">>
                 \o ModuleLines(sortedKeys(d.Provides), provided)
            ELSE <<>>)
        \o (IF DOMAIN d.Requirements # {}
            THEN Spaces(4) \o RequirementsKey \o <<"\n">>
                 \o ModuleLines(sortedKeys(d.Requirements), required)
            ELSE <<>>)

RECURSIVE EmitAll(_)
EmitAll(ds) == IF ds = <<>> THEN <<>> ELSE emitDist(Head(ds)) \o EmitAll(Tail(ds))

Emit(ds) == header \o Marker \o <<"\n">> \o EmitAll(sorted(ds))

\* \s of the parser's regular expressions
ReSpace == {"\t", "\n", "\f", "\r", " "}

NonSpace(s) == s # <<>> /\ \A i \in DOMAIN s : s[i] \notin ReSpace

\* bufio.Scanner with ScanLines: the text cut at every "\n", one trailing
\* "\r" of a line dropped, no empty line after the last "\n"
Lines(text) ==
    LET ends  == {i \in DOMAIN text : text[i] = "\n"}
                 \cup (IF text # <<>> /\ text[Len(text)] # "\n"
                       THEN {Len(text) + 1} ELSE {})
        EndOf(k)   == CHOOSE e \in ends : Cardinality({x \in ends : x <= e}) = k
        StartOf(k) == IF k = 1 THEN 1 ELSE EndOf(k - 1) + 1
        Cut(k)     == SubSeq(text, StartOf(k), EndOf(k) - 1)
    IN  [k \in 1..Cardinality(ends) |->
            IF Cut(k) # <<>> /\ Cut(k)[Len(Cut(k))] = "\r"
            THEN Take(Cut(k), Len(Cut(k)) - 1) ELSE Cut(k)]

\* FindStringSubmatch: <<>> for no match, else the groups
\* `^  (\S+)$`
distNameRe(line) ==
    IF HasPrefix(line, Spaces(2)) /\ NonSpace(Drop(line, 2))
    THEN <<Drop(line, 2)>> ELSE <<>>

\* `^    pathname: (.+)$`
pathnameRe(line) ==
    LET key == Spaces(4) \o PathnameKey
    IN  IF HasPrefix(line, key) /\ Len(line) > Len(key)
        THEN <<Drop(line, Len(key))>> ELSE <<>>

\* `^    provides:$`
providesRe(line) == line = Spaces(4) \o ProvidesKey

\* `^    requirements:$`
requiresRe(line) == line = Spaces(4) \o RequirementsKey

\* `^      (\S+) (.+)$`: the module is the run of non-space bytes after the
\* indent, one space follows, the version is the rest of the line
moduleVerRe(line) ==
    LET rest == Drop(line, 6)
        ws   == {i \in DOMAIN rest : rest[i] \in ReSpace}
        at   == CHOOSE i \in ws : \A j \in ws : i <= j
    IN  IF /\ HasPrefix(line, Spaces(6)) /\ ws # {}
           /\ at > 1 /\ rest[at] = " " /\ Len(rest) > at
        THEN <<Take(rest, at - 1), Drop(rest, at)>> ELSE <<>>

\* one turn of Parse's loop; current is <<>> for nil, else the one record
ParseLine(st, line) ==
    IF HasPrefix(line, <<"#">>) \/ line = Marker \/ line = <<>> THEN st
    ELSE IF distNameRe(line) # <<>>
    THEN [dists |-> st.dists \o st.current,
          current |-> <<Dist(distNameRe(line)[1], Empty, EmptyMap, EmptyMap, "")>>,
          inProvides |-> FALSE, inRequirements |-> FALSE]
    ELSE IF st.current = <<>> THEN st
    ELSE IF pathnameRe(line) # <<>>
    THEN [st EXCEPT !.current[1].Pathname = pathnameRe(line)[1]]
    ELSE IF providesRe(line)
    THEN [st EXCEPT !.inProvides = TRUE, !.inRequirements = FALSE]
    ELSE IF requiresRe(line)
    THEN [st EXCEPT !.inRequirements = TRUE, !.inProvides = FALSE]
    ELSE IF moduleVerRe(line) # <<>>
    THEN LET module  == moduleVerRe(line)[1]
             version == moduleVerRe(line)[2]
         IN  IF st.inProvides
             THEN [st EXCEPT !.current[1].Provides = (module :> version) @@ @]
             ELSE IF st.inRequirements
             THEN [st EXCEPT !.current[1].Requirements = (module :> version) @@ @]
             ELSE st
    ELSE st

RECURSIVE ParseFromLine(_, _, _)
ParseFromLine(lines, i, st) ==
    IF i > Len(lines) THEN st.dists \o st.current
    ELSE ParseFromLine(lines, i + 1, ParseLine(st, lines[i]))

Parse(text) ==
    ParseFromLine(Lines(text), 1,
                  [dists |-> <<>>, current |-> <<>>,
                   inProvides |-> FALSE, inRequirements |-> FALSE])

\* blocks of snapshot texts in the form of the format: the name line, the
\* pathname line, then each section that has module lines, modules ascending,
\* requirement versions without an operator
CanonBlocks ==
    { [Name |-> <<"A", "-", "1">>,
       Text |->
          <<" ", " ", "A", "-", "1", "\n", " ", " ", " ", " ", "p", "a",
            "t", "h", "n", "a", "m", "e", ":", " ", "X", "/", "A", "-",
            "1", "\n">>],
      [Name |-> <<"A", "-", "1">>,
       Text |->
          <<" ", " ", "A", "-", "1", "\n", " ", " ", " ", " ", "p", "a",
            "t", "h", "n", "a", "m", "e", ":", " ", "Y", "/", "A", "-",
            "1", "\n", " ", " ", " ", " ", "p", "r", "o", "v", "i", "d",
            "e", "s", ":", "\n", " ", " ", " ", " ", " ", " ", "A", " ",
            "u", "n", "d", "e", "f", "\n">>],
      [Name |-> <<"B", "-", "2">>,
       Text |->
          <<" ", " ", "B", "-", "2", "\n", " ", " ", " ", " ", "p", "a",
            "t", "h", "n", "a", "m", "e", ":", " ", "X", "/", "B", "-",
            "2", "\n", " ", " ", " ", " ", "p", "r", "o", "v", "i", "d",
            "e", "s", ":", "\n", " ", " ", " ", " ", " ", " ", "A", " ",
            "1", "\n", " ", " ", " ", " ", " ", " ", "B", " ", "2", "\n",
            " ", " ", " ", " ", "r", "e", "q", "u", "i", "r", "e", "m",
            "e", "n", "t", "s", ":", "\n", " ", " ", " ", " ", " ", " ",
            "A", " ", "0", "\n", " ", " ", " ", " ", " ", " ", "C", " ",
            "1", "\n">>],
      [Name |-> <<"C", "-", "1">>,
       Text |->
          <<" ", " ", "C", "-", "1", "\n", " ", " ", " ", " ", "p", "a",
            "t", "h", "n", "a", "m", "e", ":", " ", "X", "/", "C", "-",
            "1", "\n", " ", " ", " ", " ", "r", "e", "q", "u", "i", "r",
            "e", "m", "e", "n", "t", "s", ":", "\n", " ", " ", " ", " ",
            " ", " ", "B", " ", "2", "\n">>] }

RECURSIVE TextOf(_)
TextOf(blocks) ==
    IF blocks = <<>> THEN <<>> ELSE Head(blocks).Text \o TextOf(Tail(blocks))

\* the texts of at most MaxDists blocks with the names in ascending order
CanonTexts ==
    { header \o Marker \o <<"\n">> \o TextOf(q) :
        q \in { r \in SeqsUpTo(CanonBlocks, MaxDists) :
                  \A i \in 1..(Len(r) - 1) : ~Less(r[i + 1].Name, r[i].Name) } }

\* Either Resolve has returned a list of records to runSnapshot, or a
\* snapshot text is given to the parser.
SnInit ==
    /\ RsUnused /\ DlUnused /\ LdUnused /\ FnUnused
    /\ snUnique = <<>> /\ snParsed = <<>> /\ snOut = <<>>
    /\ \/ snpc = "resolved" /\ snDists \in DistLists /\ snText = <<>>
       \/ snpc = "text" /\ snDists = <<>> /\ snText \in CanonTexts

\* runSnapshot lines 113-121
SnDedupe ==
    /\ UNCHANGED <<vars, dlVars, ldVars, fnVars>>
    /\ snpc = "resolved"
    /\ snUnique' = uniqueDists(snDists)
    /\ snpc' = "unique"
    /\ UNCHANGED <<snDists, snText, snParsed, snOut>>

\* runSnapshot: emitter.Emit(uniqueDists)
SnEmit ==
    /\ UNCHANGED <<vars, dlVars, ldVars, fnVars>>
    /\ snpc = "unique"
    /\ snOut' = Emit(snUnique)
    /\ snpc' = "emitted"
    /\ UNCHANGED <<snDists, snUnique, snText, snParsed>>

\* the written snapshot is read back
SnParse ==
    /\ UNCHANGED <<vars, dlVars, ldVars, fnVars>>
    /\ snpc = "emitted"
    /\ snParsed' = Parse(snOut)
    /\ snpc' = "parsed"
    /\ UNCHANGED <<snDists, snUnique, snText, snOut>>

\* a given text is parsed
TxParse ==
    /\ UNCHANGED <<vars, dlVars, ldVars, fnVars>>
    /\ snpc = "text"
    /\ snParsed' = Parse(snText)
    /\ snpc' = "read"
    /\ UNCHANGED <<snDists, snUnique, snText, snOut>>

\* and what was parsed is emitted again
TxEmit ==
    /\ UNCHANGED <<vars, dlVars, ldVars, fnVars>>
    /\ snpc = "read"
    /\ snOut' = Emit(snParsed)
    /\ snpc' = "written"
    /\ UNCHANGED <<snDists, snUnique, snText, snParsed>>

SnNext ==
    \/ SnDedupe
    \/ SnEmit
    \/ SnParse
    \/ TxParse
    \/ TxEmit

SnapSpec == SnInit /\ [][SnNext]_snVars

\* ---------------------------------------------------------------------
\* C17
\* ---------------------------------------------------------------------

\* the pathname lines of a text, in order
PathnameLines(text) == SelectSeq(Lines(text), LAMBDA l : pathnameRe(l) # <<>>)

\* C17: whatever list of records Resolve returned, the snapshot the program
\* writes has no two distributions with the same pathname, and it has as
\* many pathname lines as the list has different pathnames.
C17_PathnameUniqueness ==
    snpc \in {"emitted", "parsed"} =>
        LET paths == PathnameLines(snOut)
        IN  /\ \A i, j \in DOMAIN paths : i # j => paths[i] # paths[j]
            /\ Len(paths) = Cardinality({snDists[i].Pathname : i \in DOMAIN snDists})

\* Resolve returned two different records of one pathname and the snapshot
\* written has that pathname once
C17_Witness ==
    /\ snpc = "emitted"
    /\ \E i, j \in DOMAIN snDists :
          /\ i # j /\ snDists[i] # snDists[j]
          /\ snDists[i].Pathname = snDists[j].Pathname
    /\ Len(PathnameLines(snOut)) = 1

\* ---------------------------------------------------------------------
\* C18
\* ---------------------------------------------------------------------

\* the orderings of a list
Orderings(q) == {[i \in DOMAIN q |-> q[f[i]]] : f \in Permutations(DOMAIN q)}

\* C18: the text emitted for a set of records is the same for every ordering
\* of the set passed to Emit, also when several records have one name.
C18_EmissionDeterminism ==
    snpc = "emitted" => \A p \in Orderings(snUnique) : Emit(p) = snOut

\* ---------------------------------------------------------------------
\* C19
\* ---------------------------------------------------------------------

SortedByName(q) == \A i \in 1..(Len(q) - 1) : ~Less(q[i + 1].Name, q[i].Name)

\* C19: for a list S of records sorted by name, with arbitrary constraint
\* strings and a source tag, parsing the text emitted for S gives S.
C19_SnapshotRoundTrip ==
    snpc = "parsed" /\ SortedByName(snUnique) => snParsed = snUnique

\* ---------------------------------------------------------------------
\* C20
\* ---------------------------------------------------------------------

\* C20: for a snapshot text in canonical form, emitting what the parser read
\* from it reproduces the text byte for byte.
C20_TextRoundTrip ==
    snpc = "written" => snOut = snText

\* a text of two distributions, one of them with both sections, came back
C20_Witness ==
    /\ snpc = "written"
    /\ Len(snParsed) = 2
    /\ \E i \in DOMAIN snParsed :
          /\ Cardinality(DOMAIN snParsed[i].Provides) = 2
          /\ Cardinality(DOMAIN snParsed[i].Requirements) = 2
    /\ snOut = snText

\* ---------------------------------------------------------------------
\* C21
\* ---------------------------------------------------------------------

IsModuleLine(line) == moduleVerRe(line) # <<>>

IsSectionLine(line) == providesRe(line) \/ requiresRe(line)

\* how many lines of the sequence satisfy the test
CountLines(lines, Test(_)) == Cardinality({i \in DOMAIN lines : Test(lines[i])})

\* C21: the emitted text starts with the header line and the DISTRIBUTIONS
\* line; the name lines are in ascending order; inside a section the module
\* lines are in ascending module order; a section of an empty map is not
\* written (every section line is followed by a module line, and there are
\* as many section lines as non-empty maps); an empty provided version is
\* written as undef.
C21_EmittedLayout ==
    snpc = "emitted" =>
        LET L     == Lines(snOut)
            names == SelectSeq(L, LAMBDA l : distNameRe(l) # <<>>)
        IN  /\ Len(L) >= 2
            /\ L[1] \o <<"\n">> = header
            /\ L[2] = Marker
            /\ \A i \in 3..Len(L) :
                  \/ distNameRe(L[i]) # <<>>
                  \/ pathnameRe(L[i]) # <<>>
                  \/ IsSectionLine(L[i])
                  \/ IsModuleLine(L[i])
            /\ Len(names) = Len(snUnique)
            /\ \A i \in 1..(Len(names) - 1) : ~Less(names[i + 1], names[i])
            /\ \A i \in 1..(Len(L) - 1) :
                  /\ IsModuleLine(L[i]) /\ IsModuleLine(L[i + 1])
                        => Less(moduleVerRe(L[i])[1], moduleVerRe(L[i + 1])[1])
                  /\ IsSectionLine(L[i]) => IsModuleLine(L[i + 1])
            /\ ~IsSectionLine(L[Len(L)])
            /\ CountLines(L, providesRe)
                  = Cardinality({i \in DOMAIN snUnique : DOMAIN snUnique[i].Provides # {}})
            /\ CountLines(L, requiresRe)
                  = Cardinality({i \in DOMAIN snUnique : DOMAIN snUnique[i].Requirements # {}})
            /\ \A i \in DOMAIN snUnique : \A k \in DOMAIN snUnique[i].Provides :
                  snUnique[i].Provides[k] = Empty =>
                      \E j \in DOMAIN L : L[j] = Spaces(6) \o k \o <<" ">> \o Undef

\* two records were passed in descending order of name, one of them with no
\* requirements, and the text has the smaller name first
C21_Witness ==
    /\ snpc = "emitted"
    /\ Len(snUnique) = 2
    /\ Less(snUnique[2].Name, snUnique[1].Name)
    /\ \E i \in DOMAIN snUnique : DOMAIN snUnique[i].Requirements = {}
    /\ Lines(snOut)[3] = Spaces(2) \o snUnique[2].Name

\* ---------------------------------------------------------------------
\* The version functions called on their own: satisfies(have, want) and
\* compareVersions(a, b) over a pool of version strings and the constraints
\* of at most MaxClauses clauses.
\* ---------------------------------------------------------------------

MaxClauses == 2

\* versions of every form: empty, plain, dotted, with the v prefix, decimal
\* with three and with six fractional digits, and undef
VersionPool ==
    { <<>>,
      <<"0">>,
      <<"1">>,
      <<"1", ".", "0">>,
      <<"1", ".", "5">>,
      <<"2">>,
      <<"v", "1", ".", "0">>,
      <<"u", "n", "d", "e", "f">>,
      <<"1", ".", "0", "0", "1">>,
      <<"1", ".", "1">>,
      <<"3", ".", "1", "8", ".", "0">>,
      <<"3", ".", "0", "0", "7", "0", "0", "4">>,
      <<"2", ".", "0", "0", "5", "0", "0", "5">>,
      <<"2", ".", "0", "0", "5">> }

\* the operators of satisfiesOne; <<>> is a bare version
OpPool == {<<>>, <<">", "=">>, <<">">>, <<"<", "=">>, <<"<">>, <<"=", "=">>, <<"!", "=">>}

Clause(op, ver) == [op |-> op, ver |-> ver]

ClausePool ==
    {Clause(op, ver) : op \in OpPool, ver \in {V1, V2}} \cup {Clause(<<>>, V0)}

\* a clause as it is written in a constraint
ClauseText(c) == IF c.op = <<>> THEN c.ver ELSE c.op \o <<" ">> \o c.ver

\* the clauses separated by ", "
RECURSIVE Joined(_)
Joined(q) ==
    IF q = <<>> THEN <<>>
    ELSE IF Len(q) = 1 THEN ClauseText(q[1])
    ELSE ClauseText(q[1]) \o <<",", " ">> \o Joined(Tail(q))

\* decimal versions with four, five, six and seven fractional digits, with
\* the v prefix and without a major, and a dotted one with a long component
DecimalPool ==
    { <<"1", ".", "0", "0", "0", "1">>,
      <<"1", ".", "0", "0", "0", "0", "5">>,
      <<"0", ".", "0", "8", "0", "0", "0", "1">>,
      <<"1", ".", "0", "0", "1", "0", "0", "0", "2">>,
      <<"v", "1", ".", "0", "0", "1", "2">>,
      <<".", "0", "0", "1", "2">>,
      <<"1", ".", "0", "0", "0", "1", ".", "2">> }

VsInit ==
    /\ RsUnused /\ DlUnused /\ LdUnused /\ SnUnused /\ ExUnused /\ BpUnused
    /\ RnUnused /\ IxUnused
    /\ vsA \in VersionPool \cup DecimalPool
    /\ vsOut = <<>>
    /\ \/ /\ vspc = "have-want"
          /\ vsClauses \in SeqsUpTo(ClausePool, MaxClauses)
          /\ vsB = Joined(vsClauses)
       \/ /\ vspc = "a-b"
          /\ vsClauses = <<>>
          /\ vsB \in VersionPool
       \/ /\ vspc = "v"
          /\ vsClauses = <<>>
          /\ vsB = <<>>

\* satisfies(have, want)
VsSatisfies ==
    /\ UNCHANGED <<vars, dlVars, ldVars, snVars, exVars, bpVars, rnVars, ixVars>>
    /\ vspc = "have-want"
    /\ vsOut' = satisfies(vsA, vsB)
    /\ vspc' = "satisfied"
    /\ UNCHANGED <<vsA, vsB, vsClauses>>

\* compareVersions(a, b) and compareVersions(b, a)
VsCompare ==
    /\ UNCHANGED <<vars, dlVars, ldVars, snVars, exVars, bpVars, rnVars, ixVars>>
    /\ vspc = "a-b"
    /\ vsOut' = [ab |-> compareVersions(vsA, vsB), ba |-> compareVersions(vsB, vsA)]
    /\ vspc' = "compared"
    /\ UNCHANGED <<vsA, vsB, vsClauses>>

\* normalizeVersion(v)
VsNormalize ==
    /\ UNCHANGED <<vars, dlVars, ldVars, snVars, exVars, bpVars, rnVars, ixVars>>
    /\ vspc = "v"
    /\ vsOut' = normalizeVersion(vsA)
    /\ vspc' = "normalized"
    /\ UNCHANGED <<vsA, vsB, vsClauses>>

VsNext ==
    \/ VsSatisfies
    \/ VsCompare
    \/ VsNormalize

VerSpec == VsInit /\ [][VsNext]_vsVars

\* ---------------------------------------------------------------------
\* C22
\* ---------------------------------------------------------------------

\* what the clause asks of version v, by the version comparator
ClauseHolds(v, c) ==
    LET cmp == compareVersions(v, c.ver)
    IN  CASE c.op = <<>>           -> cmp >= 0
          [] c.op = <<">", "=">>   -> cmp >= 0
          [] c.op = <<">">>        -> cmp > 0
          [] c.op = <<"<", "=">>   -> cmp <= 0
          [] c.op = <<"<">>        -> cmp < 0
          [] c.op = <<"=", "=">>   -> cmp = 0
          [] c.op = <<"!", "=">>   -> cmp # 0

\* C22: satisfies("undef", C) is true for every C; satisfies(V, "") and
\* satisfies(V, "0") are true; for any other V a constraint holds iff each of
\* its comma-separated clauses holds, a bare version A meaning V >= A and
\* each operator comparing V with its operand under compareVersions.
C22_ConstraintSatisfaction ==
    vspc = "satisfied" =>
        /\ vsA = Undef => vsOut = TRUE
        /\ vsB \in {Empty, V0} => vsOut = TRUE
        /\ vsA # Undef =>
              vsOut = (\A i \in DOMAIN vsClauses : ClauseHolds(vsA, vsClauses[i]))

\* 1.5 was found to satisfy ">= 1, < 2"
C22_Witness ==
    /\ vspc = "satisfied"
    /\ vsA = <<"1", ".", "5">>
    /\ vsB = <<">", "=", " ", "1", ",", " ", "<", " ", "2">>
    /\ vsOut = TRUE

\* ---------------------------------------------------------------------
\* C23
\* ---------------------------------------------------------------------

\* component i of an integer sequence, 0 past its end
Padded(parts, i) == IF i <= Len(parts) THEN parts[i] ELSE 0

\* the lexicographic order of two integer sequences, the shorter one
\* continued with zeros: -1, 0 or 1
Lexicographic(aParts, bParts) ==
    LET n    == IF Len(aParts) > Len(bParts) THEN Len(aParts) ELSE Len(bParts)
        diff == {i \in 1..n : Padded(aParts, i) # Padded(bParts, i)}
        k    == CHOOSE i \in diff : \A j \in diff : i <= j
    IN  IF diff = {} THEN 0
        ELSE IF Padded(aParts, k) < Padded(bParts, k) THEN 0 - 1 ELSE 1

\* C23: cmp(v, v) = 0; cmp(a, b) = -cmp(b, a); cmp is the lexicographic
\* order of the normalized integer sequences with missing trailing components
\* read as 0, so cmp("1", "1.0") = 0 and cmp("1.001", "1.1") = 0; a dotted
\* and a decimal version compare by their integer sequences:
\* cmp("3.18.0", "3.007004") > 0 and cmp("2.005005", "2.005") > 0.
C23_ComparatorLaws ==
    vspc = "compared" =>
        /\ vsA = vsB => vsOut.ab = 0
        /\ vsOut.ab = 0 - vsOut.ba
        /\ vsOut.ab = Lexicographic(normalizeVersion(vsA), normalizeVersion(vsB))
        /\ vsA = <<"1">> /\ vsB = <<"1", ".", "0">> => vsOut.ab = 0
        /\ vsA = <<"1", ".", "0", "0", "1">> /\ vsB = <<"1", ".", "1">> => vsOut.ab = 0
        /\ vsA = <<"3", ".", "1", "8", ".", "0">> /\ vsB = <<"3", ".", "0", "0", "7", "0", "0", "4">>
              => vsOut.ab > 0
        /\ vsA = <<"2", ".", "0", "0", "5", "0", "0", "5">> /\ vsB = <<"2", ".", "0", "0", "5">>
              => vsOut.ab > 0

\* the dotted 3.18.0 was compared with the decimal 3.007004 and found greater
C23_Witness ==
    /\ vspc = "compared"
    /\ vsA = <<"3", ".", "1", "8", ".", "0">>
    /\ vsB = <<"3", ".", "0", "0", "7", "0", "0", "4">>
    /\ vsOut = [ab |-> 1, ba |-> 0 - 1]

\* ---------------------------------------------------------------------
\* C35
\* ---------------------------------------------------------------------

\* the parts of v between the dots, the v prefix taken off
DotParts(v) == Split(TrimPrefix(v, <<"v">>), ".")

\* two parts, the second longer than three characters
IsDecimal(v) == Len(DotParts(v)) = 2 /\ Len(DotParts(v)[2]) > 3

\* the fractional digits continued with zeros to a whole number of groups
\* of three (1.0001 is the number 1.000100)
WholeGroups(frac) ==
    frac \o [i \in 1..((3 - (Len(frac) % 3)) % 3) |-> "0"]

\* the groups of exactly three digits, left to right, each as an integer
GroupsOfThree(frac) ==
    [k \in 1..(Len(WholeGroups(frac)) \div 3) |->
        Atoi(SubSeq(WholeGroups(frac), 3 * k - 2, 3 * k))]

\* C35: Decimal version normalization. A version of exactly two parts whose
\* fractional part is longer than three digits is normalized to the major
\* followed by the fractional digits cut left to right into groups of
\* exactly three digits, each an integer, whatever the length of the
\* fractional part; every other version is read part by part.
C35_DecimalGroups ==
    vspc = "normalized" =>
        /\ vsA = <<"3", ".", "0", "0", "7", "0", "0", "4">> => vsOut = <<3, 7, 4>>
        /\ vsA = <<"0", ".", "0", "8", "0", "0", "0", "1">> => vsOut = <<0, 80, 1>>
        /\ IsDecimal(vsA) =>
              vsOut = <<Atoi(DotParts(vsA)[1])>> \o GroupsOfThree(DotParts(vsA)[2])
        /\ ~IsDecimal(vsA) /\ TrimPrefix(vsA, <<"v">>) # <<>> =>
              vsOut = [i \in 1..Len(DotParts(vsA)) |-> Atoi(DotParts(vsA)[i])]

\* ---------------------------------------------------------------------
\* The extractor: extractMeta, runConfigure, parseJSON / parseYAML and
\* flattenPrereqs.  A tarball is the sequence of its entries; an entry has
\* its name cut at "/" and the content of the file.  The content of a
\* metadata file is the document it decodes to, or is not decodable.
\* ---------------------------------------------------------------------

\* the largest number of requirement sources a document fills
MaxSources == 2

phases == <<"runtime", "configure", "build">>

depTypes == <<"requires", "recommends", "suggests">>

\* decoded values: a string, a number, anything else (null, a list)
StrVal(s) == [kind |-> "string", val |-> s]

NumVal(n) == [kind |-> "float64", val |-> n]

NullVal == [kind |-> "other", val |-> 0]

\* fmt.Sprintf("%g") of a small whole number: its decimal digits
RECURSIVE FormatG(_)
FormatG(n) ==
    LET d == <<"0", "1", "2", "3", "4", "5", "6", "7", "8", "9">>[(n % 10) + 1]
    IN  IF n < 10 THEN <<d>> ELSE Append(FormatG(n \div 10), d)

versionString(v) ==
    CASE v.kind = "string"  -> v.val
      [] v.kind = "float64" -> FormatG(v.val)
      [] OTHER              -> V0

\* one loop of flattenPrereqs: the module is written when the flattened map
\* has no entry for it or the empty string
Merged(requirements, deps) ==
    [mod \in DOMAIN requirements \cup DOMAIN deps |->
        IF mod \in DOMAIN deps /\ (mod \notin DOMAIN requirements \/ requirements[mod] = Empty)
        THEN versionString(deps[mod])
        ELSE requirements[mod]]

RECURSIVE MergedAll(_, _)
MergedAll(requirements, sources) ==
    IF sources = <<>> THEN requirements
    ELSE MergedAll(Merged(requirements, Head(sources)), Tail(sources))

\* the maps of a document in the order flattenPrereqs reads them: the phases
\* with their dependency types, the three maps of the old format, then
\* x_alienfile's share and system
SourcesOf(meta) ==
    [i \in 1..9 |-> meta.Prereqs[phases[((i - 1) \div 3) + 1]][depTypes[((i - 1) % 3) + 1]]]
    \o <<meta.Requires, meta.BuildRequires, meta.ConfigureRequires,
         meta.Share, meta.System>>

flattenPrereqs(meta) ==
    [Name |-> meta.Name, Requirements |-> MergedAll(EmptyMap, SourcesOf(meta))]

\* parseJSON and parseYAML: a document that decodes is flattened
parseMeta(data) ==
    IF data.ok THEN [err |-> "none", meta |-> flattenPrereqs(data.doc)]
    ELSE [err |-> "parse", meta |-> <<>>]

NoDeps == [x \in {} |-> NullVal]

\* the document with map f[i] as its i-th source, for the i in the domain of f
DocFrom(name, f) ==
    LET At0(i) == IF i \in DOMAIN f THEN f[i] ELSE NoDeps
    IN  [Name |-> name,
         Prereqs |-> [ph \in {"runtime", "configure", "build"} |->
                        [dt \in {"requires", "recommends", "suggests"} |->
                            At0(3 * ((CHOOSE k \in 1..3 : phases[k] = ph) - 1)
                                + (CHOOSE k \in 1..3 : depTypes[k] = dt))]],
         Requires |-> At0(10), BuildRequires |-> At0(11),
         ConfigureRequires |-> At0(12), Share |-> At0(13), System |-> At0(14)]

Decodable(doc) == [ok |-> TRUE, doc |-> doc]

Undecodable == [ok |-> FALSE, doc |-> <<>>]

\* a metadata file that says which file it is
Tagged(tag) == Decodable(DocFrom(tag, <<>>))

Entry(name, data) == [Name |-> name, Data |-> data]

TopDir == "Foo-1"

\* filepath.Base of a name cut at "/": the last element that is not empty
Base(name) ==
    LET filled == {i \in DOMAIN name : name[i] # ""}
    IN  IF filled = {} THEN "."
        ELSE name[CHOOSE i \in filled : \A j \in filled : j <= i]

\* every entry taken as a candidate, at whatever depth
AnyDepth(name) == TRUE

\* strings.Split(header.Name, "/") has two parts
OneDeep(name) == Len(name) = 2

NothingFound ==
    [metaJSON |-> <<>>, metaYML |-> <<>>, mymetaJSON |-> <<>>, mymetaYML |-> <<>>,
     hasMakefilePL |-> FALSE, hasBuildPL |-> FALSE]

\* the switch of extractMeta's loop for one entry (nil is <<>>)
Seen(found, e) ==
    IF ~OneDeep(e.Name) THEN found
    ELSE CASE Base(e.Name) = "META.json"   -> [found EXCEPT !.metaJSON = <<e.Data>>]
           [] Base(e.Name) = "META.yml"    -> [found EXCEPT !.metaYML = <<e.Data>>]
           [] Base(e.Name) = "MYMETA.json" -> [found EXCEPT !.mymetaJSON = <<e.Data>>]
           [] Base(e.Name) = "MYMETA.yml"  -> [found EXCEPT !.mymetaYML = <<e.Data>>]
           [] Base(e.Name) = "Makefile.PL" -> [found EXCEPT !.hasMakefilePL = TRUE]
           [] Base(e.Name) = "Build.PL"    -> [found EXCEPT !.hasBuildPL = TRUE]
           [] OTHER                        -> found

RECURSIVE Scanned(_, _)
Scanned(entries, found) ==
    IF entries = <<>> THEN found ELSE Scanned(Tail(entries), Seen(found, Head(entries)))

MetaNames == {"META.json", "META.yml", "MYMETA.json", "MYMETA.yml"}

ScriptNames == {"Makefile.PL", "Build.PL"}

\* entries every tarball of the pool has: its top directory, a META.json two
\* directories deep and a MYMETA.json beside the top directory
FixedEntries ==
    << Entry(<<TopDir, "">>, Undecodable),
       Entry(<<TopDir, "t", "META.json">>, Tagged("t/META.json")),
       Entry(<<"MYMETA.json">>, Tagged("/MYMETA.json")) >>

\* the files in the top directory: each metadata file absent, decodable or
\* not decodable, each configure script absent or present
RECURSIVE FilesOf(_, _, _)
FilesOf(names, state, scripts) ==
    IF names = <<>> THEN <<>>
    ELSE LET n == Head(names)
             e == IF n \in ScriptNames
                  THEN (IF n \in scripts THEN <<Entry(<<TopDir, n>>, Undecodable)>> ELSE <<>>)
                  ELSE CASE state[n] = "absent" -> <<>>
                         [] state[n] = "good"   -> <<Entry(<<TopDir, n>>, Tagged(n))>>
                         [] state[n] = "bad"    -> <<Entry(<<TopDir, n>>, Undecodable)>>
         IN  e \o FilesOf(Tail(names), state, scripts)

Tarballs ==
    { FixedEntries
      \o FilesOf(<<"Build.PL", "META.json", "META.yml", "MYMETA.json", "MYMETA.yml",
                   "Makefile.PL">>, state, scripts) :
        state \in [MetaNames -> {"absent", "good", "bad"}], scripts \in SUBSET ScriptNames }

\* the requirement maps a source may hold
DepMaps ==
    { "Foo" :> StrVal(Empty), "Foo" :> StrVal(V1), "Foo" :> NumVal(2),
      "Bar" :> StrVal(V2), ("Foo" :> StrVal(Empty)) @@ ("Bar" :> StrVal(V2)) }

\* at most MaxSources of the fourteen sources filled
SourceFills ==
    UNION { [S -> DepMaps] : S \in {T \in SUBSET (1..14) : Cardinality(T) <= MaxSources} }

\* tarballs whose one metadata file is a META.json with such sources
PrereqTarballs ==
    { <<Entry(<<TopDir, "">>, Undecodable),
        Entry(<<TopDir, "META.json">>, Decodable(DocFrom("Foo", f)))>> : f \in SourceFills }

Returned(e, meta) == [err |-> e, meta |-> meta]

ExInit ==
    /\ RsUnused /\ DlUnused /\ LdUnused /\ SnUnused /\ VsUnused /\ BpUnused
    /\ RnUnused /\ IxUnused
    /\ expc = "open"
    /\ exFound = NothingFound /\ exRun = <<>> /\ exOut = <<>>
    /\ \/ exArgs \in [tarball : Tarballs, withConfigure : BOOLEAN]
       \/ exArgs \in [tarball : PrereqTarballs, withConfigure : {FALSE}]

\* extractMeta lines 112-136: the tarball cannot be opened, is not gzip, or
\* an entry cannot be read
ExOpenFail ==
    /\ UNCHANGED <<vars, dlVars, ldVars, snVars, vsVars, bpVars, rnVars, ixVars>>
    /\ expc = "open"
    /\ exOut' = Returned("io", <<>>)
    /\ expc' = "done"
    /\ UNCHANGED <<exArgs, exFound, exRun>>

\* extractMeta lines 129-169: the loop over the entries
ExScan ==
    /\ UNCHANGED <<vars, dlVars, ldVars, snVars, vsVars, bpVars, rnVars, ixVars>>
    /\ expc = "open"
    /\ exFound' = Scanned(exArgs.tarball, NothingFound)
    /\ expc' = "scanned"
    /\ UNCHANGED <<exArgs, exRun, exOut>>

\* extractMeta lines 172-179: a MYMETA file of the tarball is used
ExMymeta ==
    /\ UNCHANGED <<vars, dlVars, ldVars, snVars, vsVars, bpVars, rnVars, ixVars>>
    /\ expc = "scanned" /\ exArgs.withConfigure
    /\ exFound.mymetaJSON # <<>> \/ exFound.mymetaYML # <<>>
    /\ exOut' = LET r == parseMeta(IF exFound.mymetaJSON # <<>>
                                   THEN exFound.mymetaJSON[1] ELSE exFound.mymetaYML[1])
                IN  Returned(r.err, r.meta)
    /\ expc' = "done"
    /\ UNCHANGED <<exArgs, exFound, exRun>>

\* runConfigure lines 220-224
configScript(hasMakefilePL) == IF hasMakefilePL THEN "Makefile.PL" ELSE "Build.PL"

CanConfigure ==
    /\ expc = "scanned" /\ exArgs.withConfigure
    /\ exFound.mymetaJSON = <<>> /\ exFound.mymetaYML = <<>>
    /\ exFound.hasMakefilePL \/ exFound.hasBuildPL

\* runConfigure lines 207-218: no temporary directory, or the tarball cannot
\* be unpacked; extractMeta goes on to the META files
ExConfigureSetupFail ==
    /\ UNCHANGED <<vars, dlVars, ldVars, snVars, vsVars, bpVars, rnVars, ixVars>>
    /\ CanConfigure
    /\ exRun' = Append(exRun, [script |-> "none", went |-> "setup failed"])
    /\ expc' = "static"
    /\ UNCHANGED <<exArgs, exFound, exOut>>

\* runConfigure lines 226-246: perl runs the script and fails
ExConfigureRunFail ==
    /\ UNCHANGED <<vars, dlVars, ldVars, snVars, vsVars, bpVars, rnVars, ixVars>>
    /\ CanConfigure
    /\ exRun' = Append(exRun, [script |-> configScript(exFound.hasMakefilePL),
                               went |-> "run failed"])
    /\ expc' = "static"
    /\ UNCHANGED <<exArgs, exFound, exOut>>

\* what runConfigure returns after a run that left these MYMETA files
Generated(json, yml) ==
    IF json # "absent"
    THEN parseMeta(IF json = "good" THEN Tagged("generated MYMETA.json") ELSE Undecodable)
    ELSE IF yml # "absent"
    THEN parseMeta(IF yml = "good" THEN Tagged("generated MYMETA.yml") ELSE Undecodable)
    ELSE [err |-> "no MYMETA", meta |-> <<>>]

\* runConfigure lines 226-260: the script runs and leaves MYMETA.json,
\* MYMETA.yml, both or none; extractMeta lines 183-189 return the metadata or
\* go on to the META files
ExConfigure ==
    /\ UNCHANGED <<vars, dlVars, ldVars, snVars, vsVars, bpVars, rnVars, ixVars>>
    /\ CanConfigure
    /\ \E json, yml \in {"absent", "good", "bad"} :
          LET r == Generated(json, yml)
          IN  /\ exRun' = Append(exRun, [script |-> configScript(exFound.hasMakefilePL),
                                         went |-> "ran", json |-> json, yml |-> yml])
              /\ IF r.err = "none"
                 THEN exOut' = Returned("none", r.meta) /\ expc' = "done"
                 ELSE exOut' = exOut /\ expc' = "static"
    /\ UNCHANGED <<exArgs, exFound>>

\* extractMeta lines 171-191: static mode, or no MYMETA file and no script
ExNoConfigure ==
    /\ UNCHANGED <<vars, dlVars, ldVars, snVars, vsVars, bpVars, rnVars, ixVars>>
    /\ expc = "scanned"
    /\ \/ ~exArgs.withConfigure
       \/ /\ exFound.mymetaJSON = <<>> /\ exFound.mymetaYML = <<>>
          /\ ~exFound.hasMakefilePL /\ ~exFound.hasBuildPL
    /\ expc' = "static"
    /\ UNCHANGED <<exArgs, exFound, exRun, exOut>>

\* extractMeta lines 194-202
ExStatic ==
    /\ UNCHANGED <<vars, dlVars, ldVars, snVars, vsVars, bpVars, rnVars, ixVars>>
    /\ expc = "static"
    /\ exOut' = IF exFound.metaJSON # <<>>
                THEN LET r == parseMeta(exFound.metaJSON[1]) IN Returned(r.err, r.meta)
                ELSE IF exFound.metaYML # <<>>
                THEN LET r == parseMeta(exFound.metaYML[1]) IN Returned(r.err, r.meta)
                ELSE Returned("no META", <<>>)
    /\ expc' = "done"
    /\ UNCHANGED <<exArgs, exFound, exRun>>

ExNext ==
    \/ ExOpenFail
    \/ ExScan
    \/ ExMymeta
    \/ ExConfigureSetupFail
    \/ ExConfigureRunFail
    \/ ExConfigure
    \/ ExNoConfigure
    \/ ExStatic

ExtSpec == ExInit /\ [][ExNext]_exVars

\* ---------------------------------------------------------------------
\* C24
\* ---------------------------------------------------------------------

\* the tarball has the file one directory deep
InTopDir(name) ==
    \E i \in DOMAIN exArgs.tarball :
        LET n == exArgs.tarball[i].Name
        IN  Len(n) = 2 /\ n[1] # "" /\ n[2] = name

ContentOf(name) ==
    exArgs.tarball[CHOOSE i \in DOMAIN exArgs.tarball :
                      exArgs.tarball[i].Name[Len(exArgs.tarball[i].Name)] = name
                      /\ Len(exArgs.tarball[i].Name) = 2].Data

\* extractMeta returned what this file decodes to, or the decoding error
ReturnedFrom(data) ==
    IF data.ok THEN exOut.err = "none" /\ exOut.meta.Name = data.doc.Name
    ELSE exOut.err = "parse"

\* the configure script ran and left a MYMETA file that could be read
GeneratedTag ==
    IF exRun = <<>> \/ exRun[1].went # "ran" THEN "none"
    ELSE IF exRun[1].json = "good" THEN "generated MYMETA.json"
    ELSE IF exRun[1].json = "absent" /\ exRun[1].yml = "good" THEN "generated MYMETA.yml"
    ELSE "none"

\* C24: with configure the metadata comes from the first available of the
\* tarball's MYMETA.json, the tarball's MYMETA.yml, the MYMETA file a run of
\* the configure script left (a run is made only when the tarball has a
\* script), META.json, META.yml; in static mode from META.json, then
\* META.yml; a configure step that fails is no error, the META files are used;
\* with no source the extractor fails for lack of metadata.  Only files one
\* directory deep count.
C24_SelectionOrder ==
    (expc = "done" /\ exOut.err # "io") =>
        LET cfg == exArgs.withConfigure
        IN  /\ exRun # <<>> =>
                  /\ cfg /\ Len(exRun) = 1
                  /\ ~InTopDir("MYMETA.json") /\ ~InTopDir("MYMETA.yml")
                  /\ InTopDir("Makefile.PL") \/ InTopDir("Build.PL")
            /\ IF cfg /\ InTopDir("MYMETA.json") THEN ReturnedFrom(ContentOf("MYMETA.json"))
               ELSE IF cfg /\ InTopDir("MYMETA.yml") THEN ReturnedFrom(ContentOf("MYMETA.yml"))
               ELSE IF cfg /\ GeneratedTag # "none"
               THEN exOut.err = "none" /\ exOut.meta.Name = GeneratedTag
               ELSE IF InTopDir("META.json") THEN ReturnedFrom(ContentOf("META.json"))
               ELSE IF InTopDir("META.yml") THEN ReturnedFrom(ContentOf("META.yml"))
               ELSE exOut.err = "no META"

\* with configure, no MYMETA file and no META.json in the tarball, the script
\* ran and failed, and META.yml was returned
C24_Witness ==
    /\ expc = "done"
    /\ exArgs.withConfigure
    /\ exRun # <<>> /\ exRun[1].went = "run failed"
    /\ ~InTopDir("META.json") /\ InTopDir("META.yml")
    /\ exOut.err = "none" /\ exOut.meta.Name = "META.yml"

\* ---------------------------------------------------------------------
\* C25
\* ---------------------------------------------------------------------

\* C25: the script a configure step runs is Build.PL whenever the tarball has
\* Build.PL, also beside a Makefile.PL, and Makefile.PL only when it has no
\* Build.PL; the script run is one the tarball has.
C25_ConfigureScript ==
    \A i \in DOMAIN exRun :
        exRun[i].script # "none" =>
            /\ InTopDir(exRun[i].script)
            /\ exRun[i].script = (IF InTopDir("Build.PL") THEN "Build.PL" ELSE "Makefile.PL")

\* ---------------------------------------------------------------------
\* C26
\* ---------------------------------------------------------------------

\* the requirement sources of a document in the order of priority
PrioritySources(doc) ==
    << doc.Prereqs["runtime"]["requires"], doc.Prereqs["runtime"]["recommends"],
       doc.Prereqs["runtime"]["suggests"],
       doc.Prereqs["configure"]["requires"], doc.Prereqs["configure"]["recommends"],
       doc.Prereqs["configure"]["suggests"],
       doc.Prereqs["build"]["requires"], doc.Prereqs["build"]["recommends"],
       doc.Prereqs["build"]["suggests"],
       doc.Requires, doc.BuildRequires, doc.ConfigureRequires,
       doc.Share, doc.System >>

\* C26: every module of any requirement source is in the flattened map, with
\* the coerced value of the first source, in the order of priority, that has
\* the module: a later source never replaces what an earlier one wrote,
\* whatever that was.
C26_FirstWriterWins ==
    (expc = "done" /\ exOut.err = "none" /\ ~exArgs.withConfigure /\ InTopDir("META.json")) =>
        LET src == PrioritySources(ContentOf("META.json").doc)
            has(k) == {i \in DOMAIN src : k \in DOMAIN src[i]}
            first(k) == CHOOSE i \in has(k) : \A j \in has(k) : i <= j
        IN  \A k \in UNION {DOMAIN src[i] : i \in DOMAIN src} :
                /\ k \in DOMAIN exOut.meta.Requirements
                /\ exOut.meta.Requirements[k] = versionString(src[first(k)][k])

\* ------------------------------------------------------------------------
\* BackPANIndex.Lookup (src/internal/cpanfile/parser_test.go lines 476-509)
\* and what resolveOne does with its answer (resolver.go lines 104-110)
\* ------------------------------------------------------------------------

metacpanAPI ==
    <<"h", "t", "t", "p", "s", ":", "/", "/", "f", "a", "s", "t", "a", "p", "i", ".", "m", "e", "t", "a", "c", "p", "a", "n", ".", "o", "r", "g">>

Unreserved ==
    {"A", "B", "F", "J", "N", "O", "S", "a", "b", "o", "r", "v",
     "0", "1", "2", "5", ".", "-", "_", "~"}

\* "%XX" for the characters of the pools that net/url escapes
Hex(c) ==
    CASE c = " " -> <<"%", "2", "0">>
      [] c = "!" -> <<"%", "2", "1">>
      [] c = "," -> <<"%", "2", "C">>
      [] c = "/" -> <<"%", "2", "F">>
      [] c = ":" -> <<"%", "3", "A">>
      [] c = "<" -> <<"%", "3", "C">>
      [] c = "=" -> <<"%", "3", "D">>
      [] c = ">" -> <<"%", "3", "E">>
      [] c = "?" -> <<"%", "3", "F">>

\* url.PathEscape: a path segment keeps "$&+=:@" and the unreserved characters
RECURSIVE PathEscape(_)
PathEscape(s) ==
    IF s = <<>> THEN <<>>
    ELSE (IF Head(s) \in Unreserved \cup {"$", "&", "+", "=", ":", "@"}
          THEN <<Head(s)>> ELSE Hex(Head(s))) \o PathEscape(Tail(s))

\* url.QueryEscape: a space becomes "+", only unreserved characters are kept
RECURSIVE QueryEscape(_)
QueryEscape(s) ==
    IF s = <<>> THEN <<>>
    ELSE (IF Head(s) = " " THEN <<"+">>
          ELSE IF Head(s) \in Unreserved THEN <<Head(s)>>
          ELSE Hex(Head(s))) \o QueryEscape(Tail(s))

VersionParam == <<"?", "v", "e", "r", "s", "i", "o", "n", "=">>

\* a request that names a version whatever the constraint is
versionedURL(module, version) ==
    metacpanAPI \o <<"/", "v", "1", "/", "d", "o", "w", "n", "l", "o", "a", "d",
                     "_", "u", "r", "l", "/">> \o PathEscape(module)
        \o VersionParam \o QueryEscape(version)

\* Lookup lines 478-481: the URL of the request
requestURL(module, version) ==
    LET apiURL == metacpanAPI \o <<"/", "v", "1", "/", "d", "o", "w", "n", "l",
                                   "o", "a", "d", "_", "u", "r", "l", "/">>
                      \o PathEscape(module)
    IN  IF version # <<>> /\ version # <<"0">>
        THEN apiURL \o VersionParam \o QueryEscape(version)
        ELSE apiURL

NoResult == [DownloadURL |-> <<SegEmpty>>]

NoError == [msg |-> "", args |-> <<>>]

\* Lookup lines 483-508: what the call returns for the response resp
Lookup(module, version, resp) ==
    IF resp.failed
    THEN [ok |-> FALSE, result |-> NoResult,
          err |-> [msg |-> "querying MetaCPAN: %w", args |-> <<>>]]
    ELSE IF resp.StatusCode = 404
    THEN [ok |-> FALSE, result |-> NoResult,
          err |-> [msg |-> "module %s version %s not found",
                   args |-> <<module, version>>]]
    ELSE IF resp.StatusCode # 200
    THEN [ok |-> FALSE, result |-> NoResult,
          err |-> [msg |-> "MetaCPAN API error: HTTP %d",
                   args |-> <<resp.StatusCode>>]]
    ELSE IF ~resp.Body.json
    THEN [ok |-> FALSE, result |-> NoResult,
          err |-> [msg |-> "parsing response: %w", args |-> <<>>]]
    ELSE [ok |-> TRUE, result |-> [DownloadURL |-> resp.Body.download_url],
          err |-> NoError]

BpModules ==
    {<<"J", "S", "O", "N">>, <<"F", "o", "o", ":", ":", "B", "a", "r">>, <<"A", "/", "B", "?">>}

BpVersions ==
    {<<>>, <<"0">>, <<"0", "0">>, <<"0", ".", "0">>, <<"1", ".", "5">>,
     <<">", "=", " ", "2">>, <<"=", "=", " ", "v", "1", ".", "0">>}

StatusCodes == {200, 201, 204, 400, 404, 500}

\* response bodies: a JSON object with or without download_url, or no JSON
Bodies ==
    {[json |-> TRUE, download_url |-> u] : u \in BackpanURLs("Foo") \cup {<<SegEmpty>>}}
        \cup {[json |-> FALSE, download_url |-> <<SegEmpty>>]}

\* what client.Do may give: a transport error, or a response
Responses ==
    {[failed |-> TRUE, StatusCode |-> 0,
      Body |-> [json |-> FALSE, download_url |-> <<SegEmpty>>]]}
        \cup {[failed |-> FALSE, StatusCode |-> c, Body |-> b] :
                c \in StatusCodes, b \in Bodies}

BpInit ==
    /\ RsUnused /\ DlUnused /\ LdUnused /\ SnUnused /\ VsUnused /\ ExUnused
    /\ RnUnused /\ IxUnused
    /\ bppc = "call"
    /\ bpArgs \in [module : BpModules, version : BpVersions, resp : Responses]
    /\ bpReq = <<>> /\ bpOut = <<>> /\ bpUp = <<>>

\* resolveOne line 104: the call of Lookup
BpLookup ==
    /\ UNCHANGED <<vars, dlVars, ldVars, snVars, vsVars, exVars, rnVars, ixVars>>
    /\ bppc = "call"
    /\ bppc' = "answered"
    /\ bpReq' = requestURL(bpArgs.module, bpArgs.version)
    /\ bpOut' = Lookup(bpArgs.module, bpArgs.version, bpArgs.resp)
    /\ UNCHANGED <<bpArgs, bpUp>>

\* resolveOne lines 105-107: the error is wrapped and returned
BpFail ==
    /\ UNCHANGED <<vars, dlVars, ldVars, snVars, vsVars, exVars, rnVars, ixVars>>
    /\ bppc = "answered"
    /\ ~bpOut.ok
    /\ bppc' = "done"
    /\ bpUp' = [returned |-> TRUE,
                err |-> [msg |-> "resolving %s: %w",
                         args |-> <<bpArgs.module, bpOut.err>>],
                downloadURL |-> <<SegEmpty>>, pathname |-> <<SegEmpty>>,
                source |-> ""]
    /\ UNCHANGED <<bpArgs, bpReq, bpOut>>

\* resolveOne lines 108-110: the answer becomes the download to make
BpFound ==
    /\ UNCHANGED <<vars, dlVars, ldVars, snVars, vsVars, exVars, rnVars, ixVars>>
    /\ bppc = "answered"
    /\ bpOut.ok
    /\ bppc' = "done"
    /\ bpUp' = [returned |-> FALSE, err |-> NoError,
                downloadURL |-> bpOut.result.DownloadURL,
                pathname |-> extractPathname(bpOut.result.DownloadURL),
                source |-> "backpan"]
    /\ UNCHANGED <<bpArgs, bpReq, bpOut>>

BpNext == BpLookup \/ BpFail \/ BpFound

BpSpec == BpInit /\ [][BpNext]_bpVars

\* the request names a version
HasVersionParam(u) ==
    \E i \in 1..(Len(u) - Len(VersionParam) + 1) :
        SubSeq(u, i, i + Len(VersionParam) - 1) = VersionParam

\* C27: Historical lookup outcomes. The request of a lookup carries the
\* version parameter exactly when the version is neither empty nor "0"; a 404
\* answer gives the not-found error, any other status but 200 the API error,
\* and a result is returned only for a 200 answer; the resolver returns every
\* error of the lookup as a failure to resolve that module.
C27_LookupOutcomes ==
    bppc \in {"answered", "done"} =>
        /\ HasVersionParam(bpReq) <=> bpArgs.version \notin {<<>>, <<"0">>}
        /\ (~bpArgs.resp.failed /\ bpArgs.resp.StatusCode = 404) =>
              /\ ~bpOut.ok
              /\ bpOut.err.msg = "module %s version %s not found"
        /\ (~bpArgs.resp.failed /\ bpArgs.resp.StatusCode \notin {200, 404}) =>
              /\ ~bpOut.ok
              /\ bpOut.err.msg = "MetaCPAN API error: HTTP %d"
        /\ bpOut.ok => (~bpArgs.resp.failed /\ bpArgs.resp.StatusCode = 200)
        /\ (bppc = "done" /\ ~bpOut.ok) =>
              /\ bpUp.returned
              /\ bpUp.err.msg = "resolving %s: %w"
              /\ bpUp.err.args = <<bpArgs.module, bpOut.err>>
        /\ (bppc = "done" /\ bpOut.ok) => ~bpUp.returned

\* a versioned lookup answered 404 has failed the resolution of its module
C27_Witness ==
    /\ bppc = "done"
    /\ bpArgs.version = <<">", "=", " ", "2">>
    /\ HasVersionParam(bpReq)
    /\ bpArgs.resp.StatusCode = 404
    /\ bpUp.returned

\* ------------------------------------------------------------------------
\* C28: resolution order
\* ------------------------------------------------------------------------

\* the call for module m has returned without error, or m is being resolved
\* further down the stack
Handled(m) == isCore(m) \/ m \in DOMAIN resolved \/ m \in resolving

\* a step that looks up, downloads, extracts or records
Works ==
    trace' # trace \/ dists' # dists \/ resolved' # resolved \/ disk' # disk

\* between two top-level requirements nothing of the earlier ones is left
Settled ==
    /\ resolving = {}
    /\ \A j \in 1..(next - 1) : Handled(reqs[j].Module)
    /\ \A id \in DOMAIN dists : \A m \in DOMAIN dists[id].Requirements : Handled(m)

\* C28: Resolution order. The top-level requirements are taken one at a time
\* in the order given; every lookup, download and insertion is made for the
\* requirement taken last, and when the next one is taken the earlier ones
\* are resolved with all the requirements of their records. In a record, a
\* requirement is started only by the frame on top of the stack, when every
\* requirement it started before is resolved, and the frames below the top
\* do not move.
C28_ResolutionOrder ==
    [][ /\ next' # next =>
              /\ next' = next + 1
              /\ stack = <<>> /\ Settled
              /\ Len(stack') = 1
              /\ stack'[1].module = reqs[next].Module
              /\ stack'[1].version = reqs[next].Version
        /\ Works =>
              /\ next' = next /\ next > 1
              /\ stack # <<>>
              /\ stack[1].module = reqs[next - 1].Module
              /\ stack[1].version = reqs[next - 1].Version
        /\ \A k \in 1..(Len(stack) - 1) :
              k <= Len(stack') /\ stack'[k] = stack[k]
        /\ Len(stack') > Len(stack) /\ stack # <<>> =>
              /\ Len(stack') = Len(stack) + 1
              /\ Top.pc = "deps"
              /\ \E m \in Top.todo :
                    /\ stack'[Len(stack')].module = m
                    /\ stack'[Len(stack)].todo = Top.todo \ {m}
              /\ \A m \in DOMAIN dists[Top.d].Requirements \ Top.todo : Handled(m)
        /\ (Len(stack') < Len(stack) /\ err' = "none" /\ Top.pc = "deps") =>
              \A m \in DOMAIN dists[Top.d].Requirements : Handled(m)
      ]_vars

\* two top-level requirements were resolved, the first with a record that has
\* two requirements of its own, the second after it
C28_Witness ==
    /\ phase = "done"
    /\ Len(reqs) = 2 /\ reqs[1].Module # reqs[2].Module
    /\ \E i, j \in DOMAIN dists :
          /\ i < j
          /\ PrimaryOf(i) = reqs[1].Module
          /\ Cardinality(DOMAIN dists[i].Requirements \cap NonCore) >= 2
          /\ PrimaryOf(j) = reqs[2].Module

\* ------------------------------------------------------------------------
\* C29: record lifecycle
\* ------------------------------------------------------------------------

\* the records made so far for pathname p
RecordsAt(p) == {i \in DOMAIN dists : dists[i].Pathname = p}

\* C29: Record lifecycle. During one Resolve no two records are created for
\* the same pathname, and a record that was inserted keeps its name,
\* pathname, provides, requirements and source.
C29_RecordLifecycle ==
    [][/\ \A i \in DOMAIN dists : i \in DOMAIN dists' /\ dists'[i] = dists[i]
       /\ \A i \in DOMAIN dists' : RecordsAt(dists[i].Pathname)' = {i}]_vars

\* ------------------------------------------------------------------------
\* Two runs of the program on the same inputs (runSnapshot, main.go lines
\* 69-74, 104 and 113-121, with Resolve): the second run starts a new
\* resolver on an empty disk and meets the same index, the same historical
\* answers and the same tarballs
\* ------------------------------------------------------------------------

\* the historical answers a history holds: module, constraint, URL answered
AnswersIn(tr) ==
    {<<tr[k].module, tr[k].version, tr[k].url>> :
        k \in {j \in DOMAIN tr : tr[j].op = "backpan" /\ tr[j].ok}}

\* the tarballs a history holds: URL requested, tarball stored
ServedIn(tr, dk) ==
    {<<tr[k].url, dk[tr[k].dest]>> :
        k \in {j \in DOMAIN tr : tr[j].op = "download" /\ tr[j].ok}}

\* everything the servers are known to answer: in this run and the earlier one
KnownAnswers == AnswersIn(trace) \cup (IF prior = <<>> THEN {} ELSE prior.answers)

KnownServed == ServedIn(trace, disk) \cup (IF prior = <<>> THEN {} ELSE prior.served)

\* the servers are the same throughout: a query that was answered is
\* answered the same way again, a URL that was served gives the same tarball
SameWorld ==
    /\ \A k \in DOMAIN trace' \ DOMAIN trace :
          LET e == trace'[k] IN
          /\ (e.op = "backpan" /\ e.ok) =>
                \A a \in KnownAnswers : (a[1] = e.module /\ a[2] = e.version) => a[3] = e.url
          /\ (e.op = "backpan" /\ ~e.ok) =>
                \A a \in KnownAnswers : ~(a[1] = e.module /\ a[2] = e.version)
          /\ (e.op = "download" /\ e.ok) =>
                \A t \in KnownServed : t[1] = e.url => t[2] = disk'[e.dest]
          /\ (e.op = "download" /\ ~e.ok) =>
                \A t \in KnownServed : t[1] # e.url

\* runSnapshot lines 104 and 113-121: the records Resolve returned, one per
\* pathname
uniqueResult == uniqueDists([i \in DOMAIN result |-> dists[result[i]]])

\* a manifest whose requirements come from one phase each: the range over the
\* phases (main.go lines 71-74) gives them in any order
PhaseOrders(rs) == {rs, Reversed(rs)}

\* the program has written its snapshot and is run again: a new resolver, an
\* empty disk, the manifest read again
RunAgain ==
    /\ UNCHANGED <<dlVars, ldVars, snVars, vsVars, exVars, bpVars, ixVars>>
    /\ phase = "done" /\ prior = <<>>
    /\ prior' = [answers |-> AnswersIn(trace), served |-> ServedIn(trace, disk),
                 unique |-> Range(uniqueResult), reqs |-> reqs]
    /\ reqs' \in PhaseOrders(reqs)
    /\ phase' = "running"
    /\ next' = 1
    /\ resolved' = NoPtrs /\ resolving' = {} /\ dists' = <<>> /\ stack' = <<>>
    /\ err' = "none" /\ result' = <<>> /\ disk' = NoFiles /\ trace' = <<>>
    /\ UNCHANGED modules

RunNext == (Next /\ SameWorld) \/ RunAgain

RunSpec == Init /\ [][RunNext]_<<vars, rnVars, ixVars>>

\* C30: Reproducibility. Two runs of the program on the same manifest, index,
\* historical answers and tarballs write the same snapshot: the records
\* left after the removal of repeated pathnames are the same, whatever
\* order the manifest's phases, the requirements of a record and the
\* entries of resolved were ranged over.
C30_Reproducibility ==
    (phase = "done" /\ prior # <<>>) => Range(uniqueResult) = prior.unique

\* ------------------------------------------------------------------------
\* C31: the resolving set
\* ------------------------------------------------------------------------

\* the frames that have passed line 87 and not yet returned
MarkedFrames == {k \in DOMAIN stack : stack[k].pc # "enter"}

\* C31: The modules marked as resolving are exactly the modules of the
\* resolveOne frames on the stack that have started their resolution, one
\* frame per module; every exit of such a frame (success, failed historical
\* lookup, failed download, failure of a nested requirement) removes its
\* mark, and when Resolve has returned, with records or with an error,
\* nothing is marked.
C31_ResolvingIsStack ==
    /\ resolving = {stack[k].module : k \in MarkedFrames}
    /\ \A k, l \in MarkedFrames : stack[k].module = stack[l].module => k = l
    /\ Finished => resolving = {}

\* a nested requirement failed under two frames and Resolve returned the error
C31_Witness ==
    /\ phase = "failed"
    /\ resolving = {}
    /\ \E k \in Failures :
          /\ trace[k].module # reqs[next - 1].Module
          /\ Cardinality({j \in Events("insert") : j < k}) >= 2

\* ------------------------------------------------------------------------
\* C32: what an insertion changes
\* ------------------------------------------------------------------------

\* C32: Record insertion frame. The step that inserts a record for the
\* primary module M binds M to it, binds to it every module of its provides
\* that had no binding, and leaves every binding of another module as it
\* was; no other step of a resolution changes resolved.
C32_InsertionFrame ==
    [][IF dists' # dists
       THEN LET id == Len(dists')
                M == Top.module
                provided == DOMAIN dists'[id].Provides
            IN  /\ dists' = Append(dists, dists'[id])
                /\ DOMAIN resolved' = DOMAIN resolved \cup {M} \cup provided
                /\ resolved'[M] = id
                /\ \A m \in provided \ (DOMAIN resolved \cup {M}) : resolved'[m] = id
                /\ \A m \in DOMAIN resolved \ {M} : resolved'[m] = resolved[m]
       ELSE resolved' = resolved]_vars

\* a record was inserted that provides, beside its primary module, a module
\* bound before (which kept its record) and a module not bound before
C32_Witness ==
    \E id \in DOMAIN dists :
        \E m, n \in DOMAIN dists[id].Provides \ {PrimaryOf(id)} :
            /\ m \in DOMAIN resolved /\ resolved[m] < id
            /\ n \in DOMAIN resolved /\ resolved[n] = id

\* ------------------------------------------------------------------------
\* C33: Download returns
\* ------------------------------------------------------------------------

\* C33: Download never deadlocks. With at least one worker, for every batch
\* (the empty one included) a running Download returns with every worker
\* ended; it returns only when every worker has ended and both queues are
\* empty, so no worker is left waiting to receive a job or to publish a
\* result.
C33_DownloadReturns ==
    /\ [](dlpc = "returned" /\ workers >= 1 =>
            /\ \A w \in Workers : wk[w].pc = "exit"
            /\ jobChan = <<>> /\ resultChan = <<>>)
    /\ (dlpc = "running" /\ workers >= 1) ~> (dlpc = "returned")

\* two workers have ended after a batch of two jobs, of which one failed, and
\* Download has returned both results
C33_Witness ==
    /\ dlpc = "returned" /\ workers = 2 /\ Len(jobs) = 2
    /\ chanClosed
    /\ \A w \in Workers : wk[w].pc = "exit"
    /\ Len(results) = 2
    /\ \E i \in DOMAIN results : results[i].Error # "none"

\* ------------------------------------------------------------------------
\* parseCache and Lookup on index files of a few lines
\* (src/internal/index/cpan.go lines 97-143)
\* ------------------------------------------------------------------------

\* the longest index file parsed
MaxLines == 4

\* lines an index file may hold: empty, white space only, entries (one with
\* white space in front and a fourth field, one naming JSON again), a line
\* of two fields, and a header line of three fields
IxLinePool ==
    { <<>>,
      <<Gap>>,
      <<Field("JSON"), Gap, Field(V1), Gap, Field(PathOf("JSON", "-1"))>>,
      <<Gap, Field("Moo"), Gap, Field(Undef), Gap, Field(PathOf("Moo", "-1")),
        Gap, Field("extra")>>,
      <<Field("JSON"), Gap, Field(V2), Gap, Field(PathOf("JSON", "-2"))>>,
      <<Field("DBI"), Gap, Field(V1)>>,
      <<Field("Line-Count:"), Gap, Field(V1), Gap, Field(PathOf("DBI", "-1"))>> }

IxQueries == {"JSON", "Moo", "DBI", "Line-Count:"}

IxInit ==
    /\ RsUnused /\ DlUnused /\ LdUnused /\ SnUnused /\ VsUnused /\ ExUnused
    /\ BpUnused /\ RnUnused
    /\ ixpc = "new"
    /\ ixLines \in SeqsUpTo(IxLinePool, MaxLines)
    /\ ixQuery \in IxQueries
    /\ ixModules = <<>>
    /\ ixOut = <<>>

\* Lookup on an index that was constructed and never loaded
IxLookupNew ==
    /\ UNCHANGED <<vars, dlVars, ldVars, snVars, vsVars, exVars, bpVars, rnVars>>
    /\ ixpc = "new"
    /\ ixOut' = LookupIn(ixModules, ixQuery)
    /\ ixpc' = "asked-new"
    /\ UNCHANGED <<ixLines, ixQuery, ixModules>>

\* parseCache on the file
IxParse ==
    /\ UNCHANGED <<vars, dlVars, ldVars, snVars, vsVars, exVars, bpVars, rnVars>>
    /\ ixpc = "new"
    /\ ixModules' = parseCache(ixLines)
    /\ ixpc' = "parsed"
    /\ UNCHANGED <<ixLines, ixQuery, ixOut>>

\* Lookup after parseCache
IxLookup ==
    /\ UNCHANGED <<vars, dlVars, ldVars, snVars, vsVars, exVars, bpVars, rnVars>>
    /\ ixpc = "parsed"
    /\ ixOut' = LookupIn(ixModules, ixQuery)
    /\ ixpc' = "asked"
    /\ UNCHANGED <<ixLines, ixQuery, ixModules>>

IxNext == IxLookupNew \/ IxParse \/ IxLookup

IxSpec == IxInit /\ [][IxNext]_ixVars

\* the position of the first empty line; without one every line is header
HeaderEnd(lines) ==
    LET empty == {i \in DOMAIN lines : Len(lines[i]) = 0}
    IN  IF empty = {} THEN Len(lines)
        ELSE CHOOSE i \in empty : \A j \in empty : i <= j

\* the lines after the header that have three fields or more
EntryLines(lines) ==
    {i \in DOMAIN lines : i > HeaderEnd(lines) /\ Len(Fields(lines[i])) >= 3}

\* the entry lines that name module m
LinesOf(lines, m) == {i \in EntryLines(lines) : Fields(lines[i])[1] = m}

\* the last of them
LastOf(lines, m) ==
    CHOOSE i \in LinesOf(lines, m) : \A j \in LinesOf(lines, m) : j <= i

\* C34: Primary index parsing. The lines up to and including the first empty
\* line give no entry; each later line of three fields or more gives the
\* entry of its first field, with the second field (undef included) as the
\* version and the third as the pathname, whatever follows; a line of fewer
\* fields gives nothing; Lookup returns the entry of the module (of its last
\* line when it has several), and nothing for a module without such a line
\* or on an index that was never loaded.
C34_IndexParsing ==
    /\ ixpc \in {"parsed", "asked"} =>
          /\ DOMAIN ixModules = {m \in IxQueries : LinesOf(ixLines, m) # {}}
          /\ \A m \in DOMAIN ixModules :
                LET f == Fields(ixLines[LastOf(ixLines, m)])
                IN  ixModules[m] = [Module |-> m, Version |-> f[2], Pathname |-> f[3]]
    /\ ixpc = "asked" =>
          /\ ixOut.ok <=> LinesOf(ixLines, ixQuery) # {}
          /\ ixOut.ok => ixOut.entry = ixModules[ixQuery]
    /\ ixpc = "asked-new" => ~ixOut.ok

\* a file whose header has a line of three fields and a line of white space,
\* and whose entries give Moo the version undef, was parsed and asked for Moo
C34_Witness ==
    /\ ixpc = "asked" /\ ixQuery = "Moo"
    /\ Len(ixLines) = 4
    /\ Len(Fields(ixLines[1])) = 3
    /\ HeaderEnd(ixLines) = 2
    /\ Len(Fields(ixLines[3])) = 2
    /\ ixOut.ok /\ ixOut.entry.Version = Undef
    /\ "Line-Count:" \notin DOMAIN ixModules

\* ------------------------------------------------------------------------
\* C36: a module met again while it is being resolved
\* ------------------------------------------------------------------------

\* the frames that have passed the insertion (lines 162-168)
InsertedFrames == {k \in DOMAIN stack : stack[k].pc = "deps"}

\* the step is the skip of a circular dependency (lines 83-86)
SkipStep ==
    /\ Len(trace') = Len(trace) + 1
    /\ trace'[Len(trace')].op = "skip"

\* C36: Cycle-break precondition. When a call is skipped as a circular
\* dependency its module is already bound to a record in resolved; every
\* marked module is a key of resolved except the modules of frames that have
\* not yet reached the insertion, and the frame past its insertion finds its
\* own record under its module.
C36_CycleBound ==
    /\ [][SkipStep =>
            /\ Top.module \in resolving
            /\ Top.module \in DOMAIN resolved
            /\ resolved[Top.module] \in DOMAIN dists]_vars
    /\ [](\A k \in InsertedFrames :
            /\ stack[k].module \in DOMAIN resolved
            /\ resolved[stack[k].module] = stack[k].d)
    /\ [](resolving \ {stack[k].module : k \in MarkedFrames \ InsertedFrames}
            \subseteq DOMAIN resolved)

\* a requirement that the bound version does not satisfy was skipped because
\* its module is still being resolved two frames below
C36_Witness ==
    /\ trace # <<>>
    /\ trace[Len(trace)].op = "skip"
    /\ Len(stack) >= 2
    /\ \E k \in InsertedFrames :
          /\ k < Len(stack)
          /\ stack[k].module = trace[Len(trace)].module
          /\ resolved[stack[k].module] = stack[k].d

\* ------------------------------------------------------------------------
\* C37: the same requirement met again
\* ------------------------------------------------------------------------

\* resolveOne(module, version) has inserted record id and returned nil
Completed(module, version, id) ==
    /\ err = "none"
    /\ \E k \in Events("insert") :
          /\ trace[k].module = module
          /\ trace[k].version = version
          /\ trace[k].id = id
    /\ \A j \in DOMAIN stack : stack[j].d # id

\* the call on top of the stack is about to start and repeats a requirement
\* that was resolved with success earlier in this Resolve
Repeated ==
    /\ Running("enter")
    /\ \E id \in DOMAIN dists : Completed(Top.module, Top.version, id)

\* C37: Resolution is idempotent per requirement. Once resolveOne(M, C) has
\* returned with success, a later resolveOne(M, C) in the same Resolve
\* returns at once: it makes no primary lookup, no historical query, no
\* download and no extraction, and leaves resolved and the records as they
\* are, whatever metadata the first resolution used.
C37_Idempotent ==
    [][Repeated =>
          /\ stack' = Popped
          /\ resolved' = resolved /\ dists' = dists /\ disk' = disk
          /\ resolving' = resolving
          /\ trace' = trace \/ trace'[Len(trace')].op = "skip"]_vars

\* ------------------------------------------------------------------------
\* C38: destination paths as cache keys
\* ------------------------------------------------------------------------

\* the downloads asked of the downloader, served from the network or from
\* the file already at the destination
Fetches == Events("download") \cup Events("cached")

\* C38: Cache keys are injective. Within one Resolve two different download
\* URLs are never given the same destination path, under the primary cache
\* and under the historical directory alike, so the file found at a
\* destination is the tarball of the URL that was requested.
C38_InjectiveKeys ==
    \A j, k \in Fetches :
        trace[j].dest = trace[k].dest => trace[j].url = trace[k].url

\* ------------------------------------------------------------------------
\* C40: every key of resolved is provided by its record
\* ------------------------------------------------------------------------

\* the tarball from which record id was made
TarballOf(id) == disk[trace[InsertOf(id)].dest]

\* the metadata of that tarball is usable and does not list the module
\* whose resolution made the record
Unlisted(id) ==
    /\ TarballOf(id).ok
    /\ PrimaryOf(id) \notin DOMAIN TarballOf(id).Provides

\* C40: for every key M of resolved the bound record lists M in its
\* provides, so the already-resolved test reads a version recorded for M
\* itself; when the metadata does not list the requested module the record
\* lists it with the version of the metadata, next to what the metadata lists.
C40_KeysAreProvided ==
    /\ \A m \in DOMAIN resolved :
          /\ resolved[m] \in DOMAIN dists
          /\ m \in DOMAIN dists[resolved[m]].Provides
          /\ BoundVersion(m) = dists[resolved[m]].Provides[m]
    /\ \A id \in DOMAIN dists :
          Unlisted(id) =>
              dists[id].Provides =
                  TarballOf(id).Provides @@ (PrimaryOf(id) :> TarballOf(id).Version)

\* a record made from usable metadata that does not list the requested
\* module lists it with the version of the metadata and is bound to it
C40_Witness ==
    \E id \in DOMAIN dists :
        /\ Unlisted(id)
        /\ PrimaryOf(id) \in DOMAIN resolved
        /\ resolved[PrimaryOf(id)] = id
        /\ dists[id].Provides[PrimaryOf(id)] = TarballOf(id).Version
        /\ TarballOf(id).Version # Empty

====
